---- MODULE Spec2Model ----
(***************************************************************************)
(* Model of the isolab dashboard (src/dashboard/app.py): the sandbox       *)
(* lifecycle handlers (create / start / stop / restart / remove / nuke /   *)
(* list) over the container platform, the ModeStore files and the          *)
(* privileged network-policy helper, and the sliding-window rate limiter.  *)
(*                                                                         *)
(* Spec    the lifecycle handlers, one request at a time.  Each action is   *)
(*         one route function run to completion; the calls it makes are    *)
(*         recorded, in order, in `trace`.                                  *)
(* SpecRL  rate_limit_check under an advancing clock.                       *)
(***************************************************************************)
EXTENDS Integers, Sequences, FiniteSets, TLC

VARIABLES
    containers,   \* the platform's containers labelled isolab=true, by sandbox name
    mode_files,   \* MODES_DIR/<name>: the file's content, or NoFile
    modes_dir,    \* whether MODES_DIR exists
    policy,       \* the rules the helper last installed for a name, or "unset"
    op,           \* the request last handled
    trace,        \* the calls that request made, in order
    resp,         \* its response
    nops,         \* requests handled so far
    rate_limits,  \* _rate_limits: key -> timestamps, in ticks
    now,          \* time.time(), in ticks
    rl_max,       \* max_requests of the policy under check
    rl_window,    \* window_seconds of the policy under check
    rl_last,      \* the last rate_limit_check: key, time, result
    admitted,     \* history: every timestamp admitted, per key
    rl_threads,   \* request threads inside rate_limit_check: position and locals
    session,      \* flask.session: the session cookie the browser holds
    issued,       \* how many CSRF tokens secrets.token_hex has produced
    request,      \* flask.request: the HTTP request last received
    handler,      \* the function that produced its response
    threads       \* request threads inside the lifecycle handlers: position and locals

lifeVars == <<containers, mode_files, modes_dir, policy, op, trace, resp, nops>>
rlVars == <<rate_limits, now, rl_max, rl_window, rl_last, admitted, rl_threads>>
gateVars == <<session, issued, request, handler>>
threadVars == <<threads>>
vars == <<containers, mode_files, modes_dir, policy, op, trace, resp, nops,
          rate_limits, now, rl_max, rl_window, rl_last, admitted, rl_threads,
          session, issued, request, handler, threads>>

----------------------------------------------------------------------------
(* Inputs *)

\* Requests handled in one behaviour.
MaxOps == 4

\* Sandbox names requests are made with, in sorted order (valid names).
SortedNames == <<"lab1", "lab_2">>
Names == {SortedNames[i] : i \in DOMAIN SortedNames}

\* data.get("network", "none"): "<absent>" is a body without the key.
NoNet == "<absent>"
RequestNets == {NoNet, "packages", "full", "bogus"}

SSH_BASE_PORT == 2200

NoFile == "<nofile>"

\* NET_MODES: mode -> display name.
NET_MODES ==
    [m \in {"none", "packages", "web", "open"} |->
        CASE m = "none" -> "ISOLATED"
          [] m = "packages" -> "PACKAGES"
          [] m = "web" -> "WEB"
          [] m = "open" -> "OPEN"]

\* str.upper() on the strings a mode file can hold.
Upper(s) ==
    CASE s = "none" -> "NONE"
      [] s = "packages" -> "PACKAGES"
      [] s = "web" -> "WEB"
      [] s = "open" -> "OPEN"
      [] OTHER -> s

\* NET_MODES.get(net_mode, net_mode.upper())
NetDisplay(net_mode) ==
    IF net_mode \in DOMAIN NET_MODES THEN NET_MODES[net_mode] ELSE Upper(net_mode)

\* api_create's mode_map.get(net, "none")
mode_map_without_full(net) ==
    IF net \in {"none", "packages", "web", "open"} THEN net ELSE "none"

mode_map_passthrough(net) == net

mode_map(net) ==
    CASE net = "none" -> "none"
      [] net = "packages" -> "packages"
      [] net = "web" -> "web"
      [] net = "open" -> "open"
      [] net = "full" -> "open"
      [] OTHER -> "none"

\* get_sandboxes' label_map.get(label, "none")
label_map(label) ==
    CASE label \in {"--net=none", "none"} -> "none"
      [] label \in {"--net=packages", "packages"} -> "web"
      [] label \in {"--net=full", "full", "open"} -> "open"
      [] label \in {"--net=web", "web"} -> "web"
      [] OTHER -> "none"

----------------------------------------------------------------------------
(* The container platform *)

NoContainer == [status |-> "absent", port |-> 0, label |-> "none"]

\* A container without the label isolab.net.
NoLabel == "<nolabel>"

\* labels.get("isolab.net", "none")
IsolabNet(c) == IF c.label = NoLabel THEN "none" ELSE c.label

Exists(name) == containers[name].status # "absent"

\* client.containers.list(all=True, filters={"label": "isolab=true"})
Owned == {n \in Names : Exists(n)}

\* c.attrs["NetworkSettings"]["Ports"]["22/tcp"][0]["HostPort"]: the platform
\* reports a published host port only while the container runs.
HostPorts(c) == IF c.status = "running" THEN {c.port} ELSE {}

\* The platform refuses to bind a host port another running container holds.
PortFree(name) ==
    \A n \in Names \ {name} :
        containers[n].status = "running" => containers[n].port # containers[name].port

----------------------------------------------------------------------------
(* Calls, as recorded in trace *)

Ev(call, name, arg, ok) == [call |-> call, name |-> name, arg |-> arg, ok |-> ok]

\* _isolab_cmd("set-net", name, mode): returns (ok, output)
HelperEv(name, mode, ok) == Ev("helper", name, mode, ok)

\* The mode the handlers pass to clear a sandbox's rules.
ClearingMode == "open"

\* The helper's effect: on success the rules of `mode` are installed for name.
HelperApply(pol, name, mode, ok) ==
    IF ok THEN [pol EXCEPT ![name] = mode] ELSE pol

\* The policies in force after the helper calls among `calls`, in their order.
RECURSIVE PolicyAfter(_, _)
PolicyAfter(pol, calls) ==
    IF calls = <<>> THEN pol
    ELSE LET e == Head(calls) IN
         PolicyAfter(IF e.call = "helper"
                     THEN HelperApply(pol, e.name, e.arg, e.ok) ELSE pol,
                     Tail(calls))

\* The mode a handler re-applies: the file's content, "none" without a file.
PersistedMode(name) ==
    IF mode_files[name] # NoFile THEN mode_files[name] ELSE "none"

Json(status, body) == [status |-> status, body |-> body]
NotFound404 == Json(404, [error |-> "Not found"])
\* An exception no handler catches: the framework answers 500.
Unhandled500 == Json(500, [error |-> "Internal Server Error"])
OkBody == [ok |-> TRUE]

Req(kind, name, net) == [kind |-> kind, name |-> name, net |-> net]

----------------------------------------------------------------------------
(* get_sandboxes *)

Sandbox(name) ==
    LET c == containers[name] IN
    [ name |-> name,
      status |-> c.status,
      ssh_port |-> IF c.status = "running" /\ HostPorts(c) # {} THEN c.port ELSE 0,
      network |-> IF mode_files[name] # NoFile
                  THEN NetDisplay(mode_files[name])
                  ELSE NetDisplay(label_map(IsolabNet(c))) ]

get_sandboxes ==
    LET present == SelectSeq(SortedNames, Exists) IN
    [i \in DOMAIN present |-> Sandbox(present[i])]

api_labs ==
    /\ op' = Req("list", "", NoNet)
    /\ trace' = <<>>
    /\ resp' = Json(200, get_sandboxes)
    /\ UNCHANGED <<containers, mode_files, modes_dir, policy>>

----------------------------------------------------------------------------
(* api_create *)

UsedPorts == UNION {HostPorts(containers[n]) : n \in Owned}

RECURSIVE FirstFree(_, _)
FirstFree(port, used) == IF port \in used THEN FirstFree(port + 1, used) ELSE port

AllocatePort == FirstFree(SSH_BASE_PORT, UsedPorts)

\* What the environment does to one create: the SSH key file cannot be read
\* ("no_key"); containers.run raises with nothing created ("run_fail") or with
\* the container created and not started ("run_created"); writing the mode
\* file raises ("write_fail"); the helper fails ("helper_fail"); all succeed.
CreateOutcomes ==
    {"no_key", "run_fail", "run_created", "write_fail", "helper_fail", "ok"}

\* data.get("network", "none")
RequestedNet(net) == IF net = NoNet THEN "none" ELSE net

\* The calls of the try block, in order; an exception ends in the log call.
create_calls(name, mode, out) ==
    LET logEv == Ev("log", name, "Failed to create lab", TRUE) IN
    IF out \in {"run_fail", "run_created"} THEN <<Ev("run", name, mode, FALSE), logEv>>
    ELSE IF out = "write_fail"
    THEN <<Ev("run", name, mode, TRUE), Ev("ms_write", name, mode, FALSE), logEv>>
    ELSE <<Ev("run", name, mode, TRUE), Ev("ms_write", name, mode, TRUE),
           HelperEv(name, mode, out = "ok")>>

\* The response of a create that reached the try block.
create_response_always_ok(name, port, out) ==
    Json(200, [ok |-> TRUE, name |-> name, port |-> port])

create_response(name, port, out) ==
    IF out \in {"ok", "helper_fail"}
    THEN Json(200, [ok |-> TRUE, name |-> name, port |-> port])
    ELSE Json(500, [error |-> "Internal error creating lab"])

\* client.containers.get(container_name) does not raise NotFound.
NameTakenRunningOnly(name) == containers[name].status = "running"

NameTaken(name) == Exists(name)

api_create(name, netIn, out) ==
    LET mode == mode_map(RequestedNet(netIn))
        port == AllocatePort
        made(status) == [containers EXCEPT
                            ![name] = [status |-> status, port |-> port, label |-> mode]]
    IN
    /\ op' = Req("create", name, netIn)
    /\ IF NameTaken(name) THEN
          /\ resp' = Json(409, [error |-> "already exists"])
          /\ trace' = <<>>
          /\ UNCHANGED <<containers, mode_files, modes_dir, policy>>
       ELSE IF out = "no_key" THEN
          /\ resp' = Json(500, [error |-> "SSH key not found"])
          /\ trace' = <<>>
          /\ UNCHANGED <<containers, mode_files, modes_dir, policy>>
       ELSE
          /\ trace' = create_calls(name, mode, out)
          /\ resp' = create_response(name, port, out)
          /\ policy' = PolicyAfter(policy, create_calls(name, mode, out))
          /\ containers' = CASE out = "run_fail" -> containers
                             [] out = "run_created" -> made("created")
                             [] OTHER -> made("running")
          /\ IF out \in {"ok", "helper_fail"}
             THEN /\ modes_dir' = TRUE
                  /\ mode_files' = [mode_files EXCEPT ![name] = mode]
             ELSE UNCHANGED <<mode_files, modes_dir>>

----------------------------------------------------------------------------
(* api_stop, api_start, api_restart, api_remove *)

\* h: the clearing helper call's result; p: c.stop(timeout=5) returned.
stop_calls(name, h, p) ==
    <<HelperEv(name, ClearingMode, h), Ev("stop", name, "", p)>>

api_stop(name, h, p) ==
    /\ op' = Req("stop", name, NoNet)
    /\ IF ~Exists(name) THEN
          /\ resp' = NotFound404
          /\ trace' = <<>>
          /\ UNCHANGED <<containers, mode_files, modes_dir, policy>>
       ELSE
          /\ trace' = stop_calls(name, h, p)
          /\ policy' = PolicyAfter(policy, stop_calls(name, h, p))
          /\ containers' =
                IF p /\ containers[name].status = "running"
                THEN [containers EXCEPT ![name].status = "exited"]
                ELSE containers
          /\ resp' = IF p THEN Json(200, OkBody) ELSE Unhandled500
          /\ UNCHANGED <<mode_files, modes_dir>>

\* p: c.start() returned; h: the helper's result.
start_calls_helper_first(name, p, h) ==
    <<HelperEv(name, PersistedMode(name), h), Ev("start", name, "", p)>>

start_calls(name, p, h) ==
    IF p THEN <<Ev("start", name, "", TRUE), HelperEv(name, PersistedMode(name), h)>>
    ELSE <<Ev("start", name, "", FALSE)>>

api_start(name, p, h) ==
    /\ op' = Req("start", name, NoNet)
    /\ IF ~Exists(name) THEN
          /\ resp' = NotFound404
          /\ trace' = <<>>
          /\ UNCHANGED <<containers, mode_files, modes_dir, policy>>
       ELSE
          /\ p => containers[name].status = "running" \/ PortFree(name)
          /\ trace' = start_calls(name, p, h)
          /\ policy' = PolicyAfter(policy, start_calls(name, p, h))
          /\ containers' = IF p THEN [containers EXCEPT ![name].status = "running"]
                           ELSE containers
          /\ resp' = IF p THEN Json(200, OkBody) ELSE Unhandled500
          /\ UNCHANGED <<mode_files, modes_dir>>

\* h1: the clearing call's result; p: c.restart(timeout=5) returned; h2: the
\* re-apply's result.
restart_calls_reapply_first(name, h1, p, h2) ==
    <<HelperEv(name, PersistedMode(name), h2), HelperEv(name, ClearingMode, h1),
      Ev("restart", name, "", p)>>

restart_calls(name, h1, p, h2) ==
    IF p THEN <<HelperEv(name, ClearingMode, h1), Ev("restart", name, "", TRUE),
                HelperEv(name, PersistedMode(name), h2)>>
    ELSE <<HelperEv(name, ClearingMode, h1), Ev("restart", name, "", FALSE)>>

api_restart(name, h1, p, h2) ==
    /\ op' = Req("restart", name, NoNet)
    /\ IF ~Exists(name) THEN
          /\ resp' = NotFound404
          /\ trace' = <<>>
          /\ UNCHANGED <<containers, mode_files, modes_dir, policy>>
       ELSE
          /\ p => PortFree(name)
          /\ trace' = restart_calls(name, h1, p, h2)
          /\ policy' = PolicyAfter(policy, restart_calls(name, h1, p, h2))
          /\ containers' = IF p THEN [containers EXCEPT ![name].status = "running"]
                           ELSE containers
          /\ resp' = IF p THEN Json(200, OkBody) ELSE Unhandled500
          /\ UNCHANGED <<mode_files, modes_dir>>

\* h: the clearing call's result; p: c.remove(force=True) returned.  The mode
\* file is removed when it exists.
remove_calls_container_first(name, h, p) ==
    IF p THEN <<Ev("remove", name, "", TRUE), HelperEv(name, ClearingMode, h)>>
              \o (IF mode_files[name] # NoFile
                  THEN <<Ev("ms_delete", name, "", TRUE)>> ELSE <<>>)
    ELSE <<Ev("remove", name, "", FALSE)>>

\* os.remove(mode_file) without the os.path.exists test before it.
remove_calls_unchecked_delete(name, h, p) ==
    IF p THEN <<HelperEv(name, ClearingMode, h), Ev("remove", name, "", TRUE),
                Ev("ms_delete", name, "", mode_files[name] # NoFile)>>
    ELSE <<HelperEv(name, ClearingMode, h), Ev("remove", name, "", FALSE)>>

remove_calls(name, h, p) ==
    IF p THEN <<HelperEv(name, ClearingMode, h), Ev("remove", name, "", TRUE)>>
              \o (IF mode_files[name] # NoFile
                  THEN <<Ev("ms_delete", name, "", TRUE)>> ELSE <<>>)
    ELSE <<HelperEv(name, ClearingMode, h), Ev("remove", name, "", FALSE)>>

\* A remove that deletes the mode file of a name without a container as well.
api_remove_deleting_orphan(name, h, p) ==
    /\ op' = Req("remove", name, NoNet)
    /\ IF ~Exists(name) THEN
          /\ resp' = NotFound404
          /\ trace' = IF mode_files[name] # NoFile
                      THEN <<Ev("ms_delete", name, "", TRUE)>> ELSE <<>>
          /\ mode_files' = [mode_files EXCEPT ![name] = NoFile]
          /\ UNCHANGED <<containers, modes_dir, policy>>
       ELSE
          /\ trace' = remove_calls(name, h, p)
          /\ policy' = PolicyAfter(policy, remove_calls(name, h, p))
          /\ containers' = IF p THEN [containers EXCEPT ![name] = NoContainer]
                           ELSE containers
          /\ mode_files' = IF p THEN [mode_files EXCEPT ![name] = NoFile]
                           ELSE mode_files
          /\ resp' = IF p THEN Json(200, OkBody) ELSE Unhandled500
          /\ UNCHANGED modes_dir

api_remove(name, h, p) ==
    /\ op' = Req("remove", name, NoNet)
    /\ IF ~Exists(name) THEN
          /\ resp' = NotFound404
          /\ trace' = <<>>
          /\ UNCHANGED <<containers, mode_files, modes_dir, policy>>
       ELSE
          /\ trace' = remove_calls(name, h, p)
          /\ policy' = PolicyAfter(policy, remove_calls(name, h, p))
          /\ containers' = IF p THEN [containers EXCEPT ![name] = NoContainer]
                           ELSE containers
          /\ mode_files' = IF p THEN [mode_files EXCEPT ![name] = NoFile]
                           ELSE mode_files
          /\ resp' = IF p THEN Json(200, OkBody) ELSE Unhandled500
          /\ UNCHANGED modes_dir

----------------------------------------------------------------------------
(* api_nuke *)

\* The orders in which a listing can return the containers of `which`.
Orders(which) ==
    {o \in [1..Cardinality(which) -> which] :
        \A i, j \in DOMAIN o : i # j => o[i] # o[j]}

\* client.containers.list(all=True, filters={"label": "isolab=true"})
ListOrdersRunningOnly ==
    Orders({n \in Owned : containers[n].status = "running"})

ListOrders == Orders(Owned)

\* order: the listing; failAt: the position whose c.remove(force=True) raises
\* (0: none does); hfail: the names whose clearing helper call fails.
nuke_calls(order, failAt, hfail) ==
    LET m == IF failAt = 0 THEN Len(order) ELSE failAt IN
    [i \in 1..(2 * m) |->
        IF i % 2 = 1
        THEN HelperEv(order[(i + 1) \div 2], ClearingMode,
                      order[(i + 1) \div 2] \notin hfail)
        ELSE Ev("remove", order[i \div 2], "", (i \div 2) # failAt)]

api_nuke(order, failAt, hfail) ==
    LET calls == nuke_calls(order, failAt, hfail)
        removed == {calls[i].name : i \in {j \in DOMAIN calls :
                                              calls[j].call = "remove" /\ calls[j].ok}}
        files == SelectSeq(SortedNames, LAMBDA n : mode_files[n] # NoFile)
        deletes == [i \in DOMAIN files |-> Ev("ms_delete", files[i], "", TRUE)]
    IN
    /\ op' = Req("nuke", "", NoNet)
    /\ policy' = PolicyAfter(policy, calls)
    /\ containers' = [n \in Names |->
                        IF n \in removed THEN NoContainer ELSE containers[n]]
    /\ IF failAt # 0 THEN
          /\ trace' = calls
          /\ resp' = Unhandled500
          /\ UNCHANGED <<mode_files, modes_dir>>
       ELSE
          /\ trace' = calls \o (IF modes_dir THEN deletes ELSE <<>>)
          /\ mode_files' = IF modes_dir THEN [n \in Names |-> NoFile] ELSE mode_files
          /\ resp' = Json(200, [ok |-> TRUE, removed |-> Len(order)])
          /\ UNCHANGED modes_dir

----------------------------------------------------------------------------

LifeInit ==
    /\ containers = [n \in Names |-> NoContainer]
    /\ mode_files = [n \in Names |-> NoFile]
    /\ modes_dir = FALSE
    /\ policy = [n \in Names |-> "unset"]
    /\ op = Req("none", "", NoNet)
    /\ trace = <<>>
    /\ resp = Json(0, [ok |-> TRUE])
    /\ nops = 0
    /\ threads = <<>>

NoCheck == [key |-> "", at |-> 0, allowed |-> TRUE, retry_after |-> 0]

RLIdle ==
    /\ rate_limits = [k \in {} |-> <<>>]
    /\ now = 0
    /\ rl_max = 0
    /\ rl_window = 0
    /\ rl_last = NoCheck
    /\ admitted = [k \in {} |-> <<>>]
    /\ rl_threads = <<>>

\* session.clear(): no key is set; csrf_token 0 stands for the "" that
\* session.get("csrf_token", "") then returns.
NoSession == [authenticated |-> FALSE, username |-> "", csrf_token |-> 0]

NoRequest == [path |-> <<"<none>">>, method |-> "", token |-> 0, username |-> "", password |-> ""]

GateIdle ==
    /\ session = NoSession
    /\ issued = 0
    /\ request = NoRequest
    /\ handler = ""

Init == LifeInit /\ RLIdle /\ GateIdle

\* One more request is handled; the rate limiter is not part of these handlers.
Step == nops < MaxOps /\ nops' = nops + 1 /\ UNCHANGED rlVars /\ UNCHANGED gateVars
    /\ UNCHANGED threadVars

Labs == Step /\ api_labs

Create ==
    /\ Step
    /\ \E name \in Names, net \in RequestNets, out \in CreateOutcomes :
          api_create(name, net, out)

Stop == Step /\ \E name \in Names, h \in BOOLEAN, p \in BOOLEAN : api_stop(name, h, p)

Start == Step /\ \E name \in Names, p \in BOOLEAN, h \in BOOLEAN : api_start(name, p, h)

Restart ==
    /\ Step
    /\ \E name \in Names, h1 \in BOOLEAN, p \in BOOLEAN, h2 \in BOOLEAN :
          api_restart(name, h1, p, h2)

Remove == Step /\ \E name \in Names, h \in BOOLEAN, p \in BOOLEAN : api_remove(name, h, p)

Nuke ==
    /\ Step
    /\ \E order \in ListOrders :
          \E failAt \in 0..Len(order), hfail \in SUBSET {order[i] : i \in DOMAIN order} :
             api_nuke(order, failAt, hfail)

Next == Labs \/ Create \/ Stop \/ Start \/ Restart \/ Remove \/ Nuke

Spec == Init /\ [][Next]_vars

----------------------------------------------------------------------------
(* rate_limit_check *)

\* The clock runs to MaxTime ticks; a policy admits up to MaxRequests requests
\* in a window of up to MaxWindow seconds.
MaxTime == 4
MaxRequests == 2
MaxWindow == 2

\* time.time() is read in ticks of half a second.
Ticks(seconds) == 2 * seconds
\* int(x) of a non-negative number of ticks, in seconds.
IntSeconds(ticks) == ticks \div 2

Keys == {"login:10.0.0.1", "create:10.0.0.1"}

\* _rate_limits[key], an empty list when the key is new
Bucket(key) == IF key \in DOMAIN rate_limits THEN rate_limits[key] ELSE <<>>

\* [t for t in _rate_limits[key] if now - t < window_seconds]
rl_prune(bucket, t, window_seconds) ==
    SelectSeq(bucket, LAMBDA x : t - x < Ticks(window_seconds))

\* len(_rate_limits[key]) >= max_requests
rl_full_off_by_one(bucket, max_requests) == Len(bucket) > max_requests

rl_full(bucket, max_requests) == Len(bucket) >= max_requests

\* int(window_seconds - (now - oldest)) + 1
rl_retry_after_exact(oldest, t, window_seconds) ==
    IntSeconds(Ticks(window_seconds) - (t - oldest))

\* A retry delay of one second whatever the oldest timestamp's age.
rl_retry_after_one_second(oldest, t, window_seconds) == 1

rl_retry_after(oldest, t, window_seconds) ==
    IntSeconds(Ticks(window_seconds) - (t - oldest)) + 1

rate_limit_check(key, max_requests, window_seconds) ==
    LET kept == rl_prune(Bucket(key), now, window_seconds)
        set(b) == [k \in DOMAIN rate_limits \cup {key} |->
                      IF k = key THEN b ELSE rate_limits[k]]
    IN
    IF rl_full(kept, max_requests) THEN
        /\ rate_limits' = set(kept)
        /\ rl_last' = [key |-> key, at |-> now, allowed |-> FALSE,
                       retry_after |-> rl_retry_after(kept[1], now, window_seconds)]
        /\ UNCHANGED admitted
    ELSE
        /\ rate_limits' = set(Append(kept, now))
        /\ rl_last' = [key |-> key, at |-> now, allowed |-> TRUE, retry_after |-> 0]
        /\ admitted' = [k \in DOMAIN admitted \cup {key} |->
                          IF k = key
                          THEN Append(IF key \in DOMAIN admitted
                                      THEN admitted[key] ELSE <<>>, now)
                          ELSE admitted[k]]

Check ==
    /\ \E key \in Keys : rate_limit_check(key, rl_max, rl_window)
    /\ UNCHANGED <<now, rl_max, rl_window, rl_threads>>
    /\ UNCHANGED lifeVars
    /\ UNCHANGED gateVars
    /\ UNCHANGED threadVars

Tick ==
    /\ now < MaxTime
    /\ now' = now + 1
    /\ UNCHANGED <<rate_limits, rl_max, rl_window, rl_last, admitted, rl_threads>>
    /\ UNCHANGED lifeVars
    /\ UNCHANGED gateVars
    /\ UNCHANGED threadVars

RLInit ==
    /\ LifeInit
    /\ rate_limits = [k \in {} |-> <<>>]
    /\ now = 0
    /\ rl_max \in 1..MaxRequests
    /\ rl_window \in 1..MaxWindow
    /\ rl_last = NoCheck
    /\ admitted = [k \in {} |-> <<>>]
    /\ rl_threads = <<>>
    /\ GateIdle

RLNext == Check \/ Tick

SpecRL == RLInit /\ [][RLNext]_vars

----------------------------------------------------------------------------
(* rate_limit_check run by concurrent request threads (app.run serves each    *)
(* request on its own thread; the function takes no lock).  Each statement   *)
(* is one step.                                                              *)

\* Calls each thread makes.
MaxCalls == 1

Threads == {"t1", "t2"}

IdleThread(calls) == [pc |-> "idle", key |-> "", t |-> 0, kept |-> <<>>, calls |-> calls]

SetBucket(key, b) ==
    [k \in DOMAIN rate_limits \cup {key} |-> IF k = key THEN b ELSE rate_limits[k]]

\* now = time.time()
t_now(th, key) ==
    /\ rl_threads[th].pc = "idle"
    /\ rl_threads' = [rl_threads EXCEPT ![th] =
            [pc |-> "init", key |-> key, t |-> now, kept |-> <<>>,
             calls |-> rl_threads[th].calls + 1]]
    /\ UNCHANGED <<rate_limits, rl_last, admitted>>

\* if key not in _rate_limits: _rate_limits[key] = []
t_init(th) ==
    /\ rl_threads[th].pc = "init"
    /\ rate_limits' = SetBucket(rl_threads[th].key, Bucket(rl_threads[th].key))
    /\ rl_threads' = [rl_threads EXCEPT ![th].pc = "filter"]
    /\ UNCHANGED <<rl_last, admitted>>

\* [t for t in _rate_limits[key] if now - t < window_seconds]
t_filter(th) ==
    /\ rl_threads[th].pc = "filter"
    /\ rl_threads' = [rl_threads EXCEPT
            ![th].pc = "assign",
            ![th].kept = rl_prune(rate_limits[rl_threads[th].key],
                                  rl_threads[th].t, rl_window)]
    /\ UNCHANGED <<rate_limits, rl_last, admitted>>

\* _rate_limits[key] = <the filtered list>
t_assign(th) ==
    /\ rl_threads[th].pc = "assign"
    /\ rate_limits' = SetBucket(rl_threads[th].key, rl_threads[th].kept)
    /\ rl_threads' = [rl_threads EXCEPT ![th].pc = "test"]
    /\ UNCHANGED <<rl_last, admitted>>

\* if len(_rate_limits[key]) >= max_requests: ... return False, retry_after
t_test(th) ==
    LET me == rl_threads[th]
        bucket == rate_limits[me.key]
    IN
    /\ me.pc = "test"
    /\ IF rl_full(bucket, rl_max) THEN
          /\ rl_last' = [key |-> me.key, at |-> me.t, allowed |-> FALSE,
                         retry_after |-> rl_retry_after(bucket[1], me.t, rl_window)]
          /\ rl_threads' = [rl_threads EXCEPT ![th] = IdleThread(me.calls)]
       ELSE
          /\ rl_threads' = [rl_threads EXCEPT ![th].pc = "append"]
          /\ UNCHANGED rl_last
    /\ UNCHANGED <<rate_limits, admitted>>

\* _rate_limits[key].append(now); return True, 0
t_append(th) ==
    LET me == rl_threads[th] IN
    /\ me.pc = "append"
    /\ rate_limits' = SetBucket(me.key, Append(rate_limits[me.key], me.t))
    /\ admitted' = [k \in DOMAIN admitted \cup {me.key} |->
                      IF k = me.key
                      THEN Append(IF me.key \in DOMAIN admitted
                                  THEN admitted[me.key] ELSE <<>>, me.t)
                      ELSE admitted[k]]
    /\ rl_last' = [key |-> me.key, at |-> me.t, allowed |-> TRUE, retry_after |-> 0]
    /\ rl_threads' = [rl_threads EXCEPT ![th] = IdleThread(me.calls)]

Frame ==
    /\ UNCHANGED <<now, rl_max, rl_window>>
    /\ UNCHANGED lifeVars
    /\ UNCHANGED gateVars
    /\ UNCHANGED threadVars

TNow ==
    /\ Frame
    /\ \E th \in Threads, key \in Keys :
          rl_threads[th].calls < MaxCalls /\ t_now(th, key)
TInit == Frame /\ \E th \in Threads : t_init(th)
TFilter == Frame /\ \E th \in Threads : t_filter(th)
TAssign == Frame /\ \E th \in Threads : t_assign(th)
TTest == Frame /\ \E th \in Threads : t_test(th)
TAppend == Frame /\ \E th \in Threads : t_append(th)

RLCInit ==
    /\ LifeInit
    /\ rate_limits = [k \in {} |-> <<>>]
    /\ now = 0
    /\ rl_max \in 1..MaxRequests
    /\ rl_window \in 1..MaxWindow
    /\ rl_last = NoCheck
    /\ admitted = [k \in {} |-> <<>>]
    /\ rl_threads = [th \in Threads |-> IdleThread(0)]
    /\ GateIdle

RLCNext == TNow \/ TInit \/ TFilter \/ TAssign \/ TTest \/ TAppend \/ Tick

SpecRLC == RLCInit /\ [][RLCNext]_vars

----------------------------------------------------------------------------
(* require_auth, login, logout and the routes behind them, one request at a  *)
(* time (SpecGate).  `session` is the session cookie of one browser: each    *)
(* response's cookie replaces it.                                            *)

\* Requests received in one behaviour.
MaxGateOps == 4

\* The sandbox the lifecycle routes are requested for.
GateNames == {"lab1"}

\* request.path, by segments: "/api/lab/lab1/stop" is <<"api","lab","lab1","stop">>.
LoginPath == <<"login">>
FaviconPath == <<"favicon.ico">>
LogoutPath == <<"logout">>
IndexPath == <<>>
LabsPath == <<"api", "labs">>
CreatePath == <<"api", "lab", "create">>
NukePath == <<"api", "lab", "nuke">>
LabPath(name, verb) == <<"api", "lab", name, verb>>
LabVerbs == {"stop", "start", "restart", "remove"}

Paths ==
    {LoginPath, FaviconPath, LogoutPath, IndexPath, LabsPath, CreatePath, NukePath}
        \cup {LabPath(n, v) : n \in GateNames, v \in LabVerbs}

Methods == {"GET", "POST", "DELETE"}

\* @app.route(...): the methods each path is routed for (none: no such route).
RouteMethods(path) ==
    CASE path = LoginPath -> {"GET", "POST"}
      [] path \in {LogoutPath, IndexPath, LabsPath} -> {"GET"}
      [] path = FaviconPath -> {}
      [] OTHER -> {"POST"}

\* app.config["DASH_USER"], and the password DASH_HASH was made from.
DASH_USER == "admin"
DashPassword == "correct-horse"
DASH_SALT == "5a17"

Usernames == {DASH_USER, "guest"}
Passwords == {DashPassword, "letmein"}

\* hashlib.scrypt(password, salt=salt, ...): distinct inputs, distinct hashes.
hash_password(password, salt) == <<"scrypt", salt, password>>

DASH_HASH == hash_password(DashPassword, DASH_SALT)

verify_password(password, stored_hash, salt_hex) ==
    hash_password(password, salt_hex) = stored_hash

\* The header X-CSRF-Token: 0 when absent or empty, else a token value; the
\* values are those issued so far and one that has not been issued.
Requests ==
    [path : Paths \ {LoginPath}, method : Methods, token : 0..(issued + 1),
     username : {""}, password : {""}]
      \cup [path : {LoginPath}, method : Methods \ {"POST"}, token : 0..(issued + 1),
            username : {""}, password : {""}]
      \cup [path : {LoginPath}, method : {"POST"}, token : 0..(issued + 1),
            username : Usernames, password : Passwords]

Redirect(to) == [status |-> 302, body |-> [location |-> to]]
Page(status, template, error) ==
    [status |-> status, body |-> [page |-> template, error |-> error]]

\* require_auth returns None: the request goes on to its route.
None == [status |-> 0, body |-> [error |-> ""]]

\* request.path in ("/login", "/favicon.ico")
AUTH_EXEMPT_with_labs == {LoginPath, FaviconPath, LabsPath}

AUTH_EXEMPT == {LoginPath, FaviconPath}

\* request.path.startswith("/api/")
IsApi(path) == Len(path) >= 2 /\ path[1] = "api"

\* not (not token or not secrets.compare_digest(token, session.get("csrf_token", "")))
csrf_ok_any_token(token) == token # 0

csrf_ok(token) == token # 0 /\ token = session.csrf_token

\* require_auth up to the CSRF check.
auth_gate(r) ==
    IF r.path \in AUTH_EXEMPT THEN None
    ELSE IF ~session.authenticated THEN
        IF IsApi(r.path) THEN Json(401, [error |-> "Unauthorized"])
        ELSE Redirect(LoginPath)
    ELSE IF r.method = "POST" /\ ~csrf_ok(r.token) THEN
        Json(403, [error |-> "Invalid CSRF token"])
    ELSE None

\* rate_limit_check(f"create:{ip}", 10, 60) and rate_limit_check(f"login:{ip}", 5, 60)
CREATE_MAX == 10
LOGIN_MAX == 5
RATE_WINDOW == 60

\* request.path == "/api/lab/create" and request.method == "POST"
CreateLimited(r) == r.path = CreatePath /\ r.method = "POST"

\* One more request is received; the clock stands still.
GateStep(r, by) ==
    /\ nops < MaxGateOps
    /\ nops' = nops + 1
    /\ request' = r
    /\ handler' = by
    /\ UNCHANGED <<now, rl_max, rl_window, rl_threads>>
    /\ UNCHANGED threadVars

NoSandboxEffect == trace' = <<>> /\ UNCHANGED <<containers, mode_files, modes_dir, policy, op>>
NoLimiterEffect == UNCHANGED <<rate_limits, rl_last, admitted>>
NoSessionEffect == UNCHANGED <<session, issued>>

\* require_auth returns a response: no route function runs.
Denied ==
    \E r \in Requests :
        /\ GateStep(r, "require_auth")
        /\ IF auth_gate(r).status # 0 THEN
              /\ resp' = auth_gate(r)
              /\ NoLimiterEffect
           ELSE
              /\ CreateLimited(r)
              /\ rate_limit_check("create:10.0.0.1", CREATE_MAX, RATE_WINDOW)
              /\ ~rl_last'.allowed
              /\ resp' = Json(429, [error |-> "Rate limit exceeded",
                                    retry_after |-> rl_last'.retry_after])
        /\ NoSandboxEffect
        /\ NoSessionEffect

\* require_auth returned None, and the request has a route.
Dispatched(r, path, by) ==
    /\ r.path = path
    /\ auth_gate(r).status = 0
    /\ r.method \in RouteMethods(path)
    /\ GateStep(r, by)

\* No route matches: the framework answers 404 or 405 after require_auth.
NoRoute ==
    \E r \in Requests :
        /\ auth_gate(r).status = 0
        /\ r.method \notin RouteMethods(r.path)
        /\ GateStep(r, "routing")
        /\ resp' = Json(IF RouteMethods(r.path) = {} THEN 404 ELSE 405,
                        [error |-> "routing"])
        /\ NoSandboxEffect /\ NoLimiterEffect /\ NoSessionEffect

\* secrets.token_hex(32), after n tokens were produced: a value none of them has.
token_hex_repeating(n) == 1

token_hex(n) == n + 1

\* The error the login page shows for rejected credentials.
login_error_naming_check(username, password) ==
    IF username # DASH_USER THEN "Unknown user" ELSE "Wrong password"

login_error(username, password) == "Invalid credentials"

login(r) ==
    IF r.method = "GET" THEN
        /\ resp' = Page(200, "LOGIN_HTML", "")
        /\ NoLimiterEffect /\ NoSessionEffect
    ELSE
        /\ rate_limit_check("login:10.0.0.1", LOGIN_MAX, RATE_WINDOW)
        /\ IF ~rl_last'.allowed THEN
              /\ resp' = [status |-> 429,
                          body |-> [page |-> "LOGIN_HTML", error |-> "Too many attempts",
                                    retry_after |-> rl_last'.retry_after]]
              /\ NoSessionEffect
           ELSE IF r.username = DASH_USER
                   /\ verify_password(r.password, DASH_HASH, DASH_SALT) THEN
              /\ issued' = issued + 1
              /\ session' = [authenticated |-> TRUE, username |-> r.username,
                             csrf_token |-> token_hex(issued)]
              /\ resp' = Redirect(IndexPath)
           ELSE
              /\ resp' = Page(401, "LOGIN_HTML", login_error(r.username, r.password))
              /\ NoSessionEffect

logout ==
    /\ session' = NoSession
    /\ resp' = Redirect(LoginPath)
    /\ UNCHANGED issued

index ==
    /\ resp' = [status |-> 200,
                body |-> [page |-> "DASHBOARD_HTML", csrf_token |-> session.csrf_token]]
    /\ NoSessionEffect

ReqLogin ==
    \E r \in Requests :
        Dispatched(r, LoginPath, "login") /\ login(r) /\ NoSandboxEffect

ReqLogout ==
    \E r \in Requests :
        Dispatched(r, LogoutPath, "logout") /\ logout /\ NoSandboxEffect /\ NoLimiterEffect

ReqIndex ==
    \E r \in Requests :
        Dispatched(r, IndexPath, "index") /\ index /\ NoSandboxEffect /\ NoLimiterEffect

ReqLabs ==
    \E r \in Requests :
        Dispatched(r, LabsPath, "api_labs") /\ api_labs
            /\ NoLimiterEffect /\ NoSessionEffect

ReqCreate ==
    \E r \in Requests :
        /\ Dispatched(r, CreatePath, "api_create")
        /\ rate_limit_check("create:10.0.0.1", CREATE_MAX, RATE_WINDOW)
        /\ rl_last'.allowed
        /\ \E name \in GateNames, out \in {"ok", "run_fail"} :
              api_create(name, "packages", out)
        /\ NoSessionEffect

ReqStop ==
    \E r \in Requests, name \in GateNames :
        Dispatched(r, LabPath(name, "stop"), "api_stop") /\ api_stop(name, TRUE, TRUE)
            /\ NoLimiterEffect /\ NoSessionEffect

ReqStart ==
    \E r \in Requests, name \in GateNames :
        Dispatched(r, LabPath(name, "start"), "api_start") /\ api_start(name, TRUE, TRUE)
            /\ NoLimiterEffect /\ NoSessionEffect

ReqRestart ==
    \E r \in Requests, name \in GateNames :
        Dispatched(r, LabPath(name, "restart"), "api_restart")
            /\ api_restart(name, TRUE, TRUE, TRUE)
            /\ NoLimiterEffect /\ NoSessionEffect

ReqRemove ==
    \E r \in Requests, name \in GateNames :
        Dispatched(r, LabPath(name, "remove"), "api_remove") /\ api_remove(name, TRUE, TRUE)
            /\ NoLimiterEffect /\ NoSessionEffect

ReqNuke ==
    \E r \in Requests, order \in ListOrders :
        Dispatched(r, NukePath, "api_nuke") /\ api_nuke(order, 0, {})
            /\ NoLimiterEffect /\ NoSessionEffect

GateInit == LifeInit /\ RLIdle /\ GateIdle

GateNext ==
    \/ Denied \/ NoRoute \/ ReqLogin \/ ReqLogout \/ ReqIndex \/ ReqLabs
    \/ ReqCreate \/ ReqStop \/ ReqStart \/ ReqRestart \/ ReqRemove \/ ReqNuke

SpecGate == GateInit /\ [][GateNext]_vars

----------------------------------------------------------------------------
(* Mode normalisation over the whole range of mode strings (SpecModes): the  *)
(* requests carry current, legacy and unknown values, and a sandbox of an    *)
(* older generation exists whose label is in an old format and which has no  *)
(* mode file.                                                                *)

\* Requests handled in one behaviour.
MaxModeOps == 2

\* The values of a request's "network".
WideNets ==
    {NoNet, "none", "packages", "web", "open", "full", "--net=full", "--net=none", "bogus"}

\* The values of an older sandbox's label isolab.net.
LegacyLabels ==
    {NoLabel, "none", "--net=none", "packages", "--net=packages", "web", "--net=web",
     "open", "full", "--net=full", "bogus"}

LegacyName == "lab_2"

ModesInit ==
    /\ \E label \in LegacyLabels :
          containers = [n \in Names |->
                          IF n = LegacyName
                          THEN [status |-> "running", port |-> SSH_BASE_PORT, label |-> label]
                          ELSE NoContainer]
    /\ mode_files = [n \in Names |-> NoFile]
    /\ modes_dir = FALSE
    /\ policy = [n \in Names |-> "unset"]
    /\ op = Req("none", "", NoNet)
    /\ trace = <<>>
    /\ resp = Json(0, [ok |-> TRUE])
    /\ nops = 0
    /\ threads = <<>>
    /\ RLIdle
    /\ GateIdle

ModesStep ==
    nops < MaxModeOps /\ nops' = nops + 1 /\ UNCHANGED rlVars /\ UNCHANGED gateVars
    /\ UNCHANGED threadVars

ModesLabs == ModesStep /\ api_labs

ModesCreate ==
    /\ ModesStep
    /\ \E name \in Names, net \in WideNets, out \in {"ok", "write_fail"} :
          api_create(name, net, out)

ModesStart == ModesStep /\ \E name \in Names : api_start(name, TRUE, TRUE)

ModesRestart == ModesStep /\ \E name \in Names : api_restart(name, TRUE, TRUE, TRUE)

ModesNext == ModesLabs \/ ModesCreate \/ ModesStart \/ ModesRestart

SpecModes == ModesInit /\ [][ModesNext]_vars

----------------------------------------------------------------------------
(* Properties of the lifecycle handlers (under Spec) *)

HelperCalls == {i \in DOMAIN trace : trace[i].call = "helper"}
CallOk(call) == \E i \in DOMAIN trace : trace[i].call = call /\ trace[i].ok
CallFailed(call) == \E i \in DOMAIN trace : trace[i].call = call /\ ~trace[i].ok
Listed(name) == {i \in DOMAIN get_sandboxes : get_sandboxes[i].name = name}

\* C1: on an existing sandbox, stop and restart first call the helper with the
\* clearing mode "open", then issue the platform stop/restart; restart calls
\* the helper with the persisted mode only after the platform restart has
\* returned, and stop makes no further call.
C1_ClearBeforeStopRestart ==
    (op.kind \in {"stop", "restart"} /\ resp.status # 404) =>
        /\ Len(trace) >= 2
        /\ trace[1] = HelperEv(op.name, "open", trace[1].ok)
        /\ trace[2] = Ev(op.kind, op.name, "", trace[2].ok)
        /\ Len(trace) = IF op.kind = "restart" /\ trace[2].ok THEN 3 ELSE 2
        /\ Len(trace) = 3 =>
              trace[3] = HelperEv(op.name,
                                  IF mode_files[op.name] # NoFile
                                  THEN mode_files[op.name] ELSE "none",
                                  trace[3].ok)

C1_Witness ==
    /\ op.kind = "restart"
    /\ Len(trace) = 3
    /\ mode_files[op.name] = "packages"
    /\ trace[3].arg = "packages"

\* C2: start never calls the helper before the platform start has returned
\* successfully: none when the sandbox is absent or the start fails, exactly
\* one, after the start, when it succeeds.
C2_StartThenPolicy ==
    op.kind = "start" =>
        /\ resp.status = 404 => trace = <<>>
        /\ \A i \in HelperCalls :
              \E j \in 1..(i - 1) : trace[j].call = "start" /\ trace[j].ok
        /\ Cardinality(HelperCalls) = IF CallOk("start") THEN 1 ELSE 0
        /\ resp.status = 200 <=> CallOk("start")

C2_Witness ==
    /\ op.kind = "start"
    /\ resp.status = 200
    /\ Len(trace) = 2
    /\ trace[2].call = "helper"

\* C3: remove on an existing sandbox calls the helper with the clearing mode,
\* then force-removes the container, then deletes the mode file; after a
\* successful remove the sandbox is not listed and has no mode file.
C3_RemoveOrder ==
    (op.kind = "remove" /\ resp.status # 404) =>
        /\ Len(trace) >= 2
        /\ trace[1] = HelperEv(op.name, "open", trace[1].ok)
        /\ trace[2] = Ev("remove", op.name, "", trace[2].ok)
        /\ \A i \in DOMAIN trace :
              i > 2 => i = 3 /\ trace[2].ok /\ trace[3] = Ev("ms_delete", op.name, "", TRUE)
        /\ resp.status = 200 <=> trace[2].ok
        /\ resp.status = 200 =>
              /\ ~Exists(op.name)
              /\ Listed(op.name) = {}
              /\ mode_files[op.name] = NoFile

C3_Witness ==
    /\ op.kind = "remove"
    /\ resp.status = 200
    /\ Len(trace) = 3
    /\ trace[3].call = "ms_delete"

\* C4: create with a name that belongs to an existing sandbox answers 409 and
\* leaves the sandboxes, their ports, the mode files and the installed
\* policies as they were, without calling the helper.
C4_ConflictChangesNothing ==
    [][(op'.kind = "create" /\ containers[op'.name].status # "absent") =>
            /\ resp'.status = 409
            /\ containers' = containers
            /\ mode_files' = mode_files
            /\ modes_dir' = modes_dir
            /\ policy' = policy
            /\ trace' = <<>>]_vars

C4_Witness ==
    /\ op.kind = "create"
    /\ resp.status = 409
    /\ containers[op.name].status = "exited"

\* The display name of the mode a requested network value stands for.
C5_ListedFor(net) ==
    CASE net = "packages" -> "PACKAGES"
      [] net = "web" -> "WEB"
      [] net \in {"open", "full"} -> "OPEN"
      [] OTHER -> "ISOLATED"

C6_NukeRemovesAll ==
    [][(op'.kind = "nuke" /\ resp'.status = 200) =>
            /\ resp'.body.removed = Cardinality({n \in Names : containers[n].status # "absent"})
            /\ \A n \in Names : containers'[n].status = "absent"
            /\ \A n \in Names : mode_files'[n] = NoFile]_vars

C6_Witness ==
    /\ op.kind = "nuke"
    /\ resp.status = 200
    /\ resp.body.removed = 2
    /\ get_sandboxes = <<>>
    /\ \A n \in Names : mode_files[n] = NoFile

\* C7: when the platform removal of one sandbox fails in nuke, every other
\* sandbox is still removed and the mode files are still cleared.
C7_NukeBestEffort ==
    (op.kind = "nuke" /\ CallFailed("remove")) =>
        /\ \A n \in Names :
              Exists(n) => \E i \in DOMAIN trace :
                              trace[i] = Ev("remove", n, "", FALSE)
        /\ \A n \in Names : mode_files[n] = NoFile

\* C8: a failed helper call is reported in the response or written to the log.
C8_HelperFailureSurfaced ==
    CallFailed("helper") => resp.status # 200 \/ CallOk("log")

\* C9 as stated: once the platform has created the container, a failure of the
\* mode-file write or of the helper leaves the sandbox in existence and the
\* create is reported as successful.
C9_LaterFailureReportedCreated ==
    (op.kind = "create" /\ CallOk("run")
        /\ (CallFailed("ms_write") \/ CallFailed("helper"))) =>
        /\ Exists(op.name)
        /\ resp.status = 200

\* C9 amended: once the platform has created the container, a later failure
\* leaves the sandbox in existence, without rollback; a helper failure is still
\* answered as a successful creation, a failed mode-file write is answered 500
\* after a log entry, and the helper is then not called.
C9_LaterFailureNoRollback ==
    (op.kind = "create" /\ CallOk("run")) =>
        /\ Exists(op.name)
        /\ containers[op.name].status = "running"
        /\ CallFailed("helper") => resp.status = 200 /\ mode_files[op.name] # NoFile
        /\ CallFailed("ms_write") =>
              resp.status = 500 /\ CallOk("log") /\ HelperCalls = {}

C9_Witness ==
    /\ op.kind = "create"
    /\ CallOk("run")
    /\ CallFailed("ms_write")
    /\ Exists(op.name)
    /\ resp.status = 500

----------------------------------------------------------------------------
(* Properties of the rate limiter (under SpecRL) *)

\* Every bucket holds at most N timestamps; right after a check its bucket
\* holds only timestamps younger than W; and of the checks ever admitted on a
\* key, any N + 1 span at least W seconds.
C10_Within ==
    /\ \A k \in DOMAIN rate_limits : Len(rate_limits[k]) <= rl_max
    /\ (rl_last.key \in DOMAIN rate_limits /\ rl_last.at = now) =>
          \A i \in DOMAIN rate_limits[rl_last.key] :
              now - rate_limits[rl_last.key][i] < Ticks(rl_window)
    /\ \A k \in DOMAIN admitted :
          \A i, j \in DOMAIN admitted[k] :
              j - i >= rl_max => admitted[k][j] - admitted[k][i] >= Ticks(rl_window)

\* A step that leaves the clock alone is a check; a rejected one adds no
\* timestamp to its bucket and admits nothing.
C10_RejectedAddsNothing ==
    (now' = now /\ ~rl_last'.allowed) =>
        /\ rl_last'.key \in DOMAIN rate_limits
        /\ Len(rate_limits'[rl_last'.key]) <= Len(rate_limits[rl_last'.key])
        /\ \A i \in DOMAIN rate_limits'[rl_last'.key] :
              \E j \in DOMAIN rate_limits[rl_last'.key] :
                  rate_limits'[rl_last'.key][i] = rate_limits[rl_last'.key][j]
        /\ admitted' = admitted

\* C10: with fixed maxRequests = N and window = W, after any sequence of
\* checks a bucket holds at most N timestamps, all younger than W after the
\* check that pruned it; no more than N checks are admitted within any span
\* of W seconds; and a rejected check adds no timestamp.
C10_SlidingWindow == []C10_Within /\ [][C10_RejectedAddsNothing]_vars

C10_Witness ==
    /\ rl_max = 2
    /\ ~rl_last.allowed
    /\ rl_last.at = now
    /\ Len(rate_limits[rl_last.key]) = 2
    /\ Len(admitted[rl_last.key]) >= 3


\* The positions, in the history of key k, of the timestamps admitted less
\* than W seconds ago.
InWindow(k) ==
    IF k \in DOMAIN admitted
    THEN {i \in DOMAIN admitted[k] : now - admitted[k][i] < Ticks(rl_window)}
    ELSE {}

\* The ticks until the oldest timestamp of key k still in the window ages out.
Remaining(k) ==
    LET first == CHOOSE i \in InWindow(k) : \A j \in InWindow(k) : i <= j
    IN Ticks(rl_window) - (now - admitted[k][first])

\* C11 as stated: a check made when N admitted checks are within the window is
\* rejected, and its retryAfter equals the time remaining until the oldest of
\* them ages out, W minus its age.
C11_RetryAfterIsRemaining ==
    [][(now' = now /\ Cardinality(InWindow(rl_last'.key)) >= rl_max) =>
            /\ ~rl_last'.allowed
            /\ Ticks(rl_last'.retry_after) = Remaining(rl_last'.key)]_vars

\* C11 amended: such a check is rejected, and a check is rejected only then;
\* its retryAfter is the whole seconds of the time remaining plus one: more
\* than the time remaining, by at most one second.
C11_RetryAfterRoundsUp ==
    [][now' = now =>
            /\ ~rl_last'.allowed <=> Cardinality(InWindow(rl_last'.key)) >= rl_max
            /\ ~rl_last'.allowed =>
                  /\ rl_last'.retry_after = (Remaining(rl_last'.key) \div 2) + 1
                  /\ Ticks(rl_last'.retry_after) > Remaining(rl_last'.key)
                  /\ Ticks(rl_last'.retry_after) <= Remaining(rl_last'.key) + Ticks(1)]_vars

C11_Witness ==
    /\ ~rl_last.allowed
    /\ rl_last.at = now
    /\ rl_max = 2
    /\ rl_window = 2
    /\ Remaining(rl_last.key) = 3
    /\ rl_last.retry_after = 2


\* How often timestamp v occurs in sequence s.
Count(s, v) == Cardinality({i \in DOMAIN s : s[i] = v})

\* C12: with request threads checking the same key concurrently, no more than
\* maxRequests checks are admitted within one window, and no admitted
\* timestamp still inside the window is missing from the bucket.
C12_AtomicCheck ==
    \A k \in DOMAIN admitted :
        /\ \A i, j \in DOMAIN admitted[k] :
              j - i >= rl_max => admitted[k][j] - admitted[k][i] >= Ticks(rl_window)
        /\ \A i \in InWindow(k) :
              Count(rate_limits[k], admitted[k][i]) >= Count(admitted[k], admitted[k][i])


----------------------------------------------------------------------------
(* Properties of require_auth, login and logout (under SpecGate) *)

\* A request was received in this step.
Received == nops' = nops + 1

NoStoreEffect == UNCHANGED <<containers, mode_files, modes_dir, policy>>

\* C13: a request to a path other than /login and /favicon.ico that arrives
\* without an authenticated session is answered by require_auth, with 401 Unauthorized
\* on an /api/ path and a redirect to the login page otherwise; it makes no
\* platform, helper or ModeStore call and leaves the rate limiter as it was.
C13_UnauthenticatedRejected ==
    [][(Received /\ ~session.authenticated
            /\ request'.path \notin {LoginPath, FaviconPath}) =>
          /\ handler' = "require_auth"
          /\ resp'.status = IF IsApi(request'.path) THEN 401 ELSE 302
          /\ resp'.status = 302 => resp'.body.location = LoginPath
          /\ trace' = <<>>
          /\ NoStoreEffect
          /\ UNCHANGED <<rate_limits, admitted>>]_vars

\* After a login, a create and a logout, the remove request carrying the
\* token of the ended session is rejected and the sandbox stays.
C13_Witness ==
    /\ ~session.authenticated
    /\ issued = 1
    /\ request.path = LabPath("lab1", "remove")
    /\ request.method = "POST"
    /\ request.token = 1
    /\ handler = "require_auth"
    /\ resp.status = 401
    /\ containers["lab1"].status = "running"

BadToken(r) == r.token = 0 \/ r.token # session.csrf_token

\* C14 as stated: on an authenticated session every request with a non-read
\* method and an absent or mismatching CSRF token is rejected with 403 before
\* any handler runs, changing no sandbox, ModeStore, policy or session state.
C14_BadTokenRejected ==
    [][(Received /\ session.authenticated /\ request'.method # "GET"
            /\ BadToken(request')) =>
          /\ handler' = "require_auth"
          /\ resp'.status = 403
          /\ trace' = <<>>
          /\ NoStoreEffect
          /\ UNCHANGED session]_vars

\* C14 amended: on an authenticated session every POST to a path other than
\* /login and /favicon.ico with an absent or mismatching CSRF token is rejected
\* with 403 by require_auth and changes no sandbox, ModeStore, policy, session or
\* rate-limiter state; a request with another non-read method is never
\* token-checked and never reaches a route function (the routing answers 405
\* or 404), so it changes nothing either.
C14_BadTokenPostRejected ==
    [][(Received /\ session.authenticated /\ request'.method # "GET"
            /\ request'.path \notin {LoginPath, FaviconPath}
            /\ BadToken(request')) =>
          /\ IF request'.method = "POST"
             THEN handler' = "require_auth" /\ resp'.status = 403
             ELSE handler' = "routing" /\ resp'.status \in {404, 405}
          /\ trace' = <<>>
          /\ NoStoreEffect
          /\ UNCHANGED <<session, issued, rate_limits, admitted>>]_vars

\* A remove of the running sandbox with a token that is not the session's.
C14_Witness ==
    /\ session.authenticated
    /\ request.path = LabPath("lab1", "remove")
    /\ request.method = "POST"
    /\ request.token # 0
    /\ request.token # session.csrf_token
    /\ handler = "require_auth"
    /\ resp.status = 403
    /\ containers["lab1"].status = "running"

SuccessfulLogin == handler' = "login" /\ resp'.status = 302

\* C15: every successful login replaces the whole session by one bound to a
\* token no earlier login produced; the token of an authenticated session is
\* always the latest one produced, so a POST carrying an earlier token is
\* rejected; and no request but a successful login gives the session a token
\* (logout only clears it).
C15_FreshSessionPerLogin ==
    /\ [](session.authenticated => session.csrf_token = issued /\ issued >= 1)
    /\ [][/\ (Received /\ SuccessfulLogin) =>
                /\ session'.csrf_token \notin 0..issued
                /\ issued' = session'.csrf_token
                /\ session' = [authenticated |-> TRUE, username |-> DASH_USER,
                               csrf_token |-> session'.csrf_token]
          /\ (Received /\ ~SuccessfulLogin) =>
                /\ issued' = issued
                /\ session'.csrf_token \in {session.csrf_token, 0}
          /\ (Received /\ session.authenticated /\ request'.method = "POST"
                  /\ request'.path \notin {LoginPath, FaviconPath}
                  /\ request'.token \in 0..(issued - 1)) =>
                handler' = "require_auth" /\ resp'.status = 403]_vars

\* After a second login, a POST with the first login's token is rejected.
C15_Witness ==
    /\ session.authenticated
    /\ session.csrf_token = 2
    /\ request.method = "POST"
    /\ request.path = CreatePath
    /\ request.token = 1
    /\ handler = "require_auth"
    /\ resp.status = 403

\* What a login POST with rejected credentials yields in the current state:
\* nothing in it depends on the credentials sent.
FailedLoginBucket ==
    LET kept == rl_prune(Bucket("login:10.0.0.1"), now, RATE_WINDOW) IN
    IF rl_full(kept, LOGIN_MAX) THEN kept ELSE Append(kept, now)

FailedLoginStatus ==
    IF rl_full(rl_prune(Bucket("login:10.0.0.1"), now, RATE_WINDOW), LOGIN_MAX)
    THEN 429 ELSE 401

\* C16: a login attempt whose credentials are rejected, whether the username
\* or the password is wrong, gets the response (401 "Invalid credentials", or
\* 429 when rate limited), session and rate-limiter state that the state before
\* it determines: the outcome does not depend on which check failed.
C16_FailureIndistinguishable ==
    [][(Received /\ request'.path = LoginPath /\ request'.method = "POST"
            /\ ~(request'.username = DASH_USER /\ request'.password = DashPassword)) =>
          /\ handler' = "login"
          /\ resp'.status = FailedLoginStatus
          /\ resp'.status = 401 =>
                resp'.body = [page |-> "LOGIN_HTML", error |-> "Invalid credentials"]
          /\ UNCHANGED <<session, issued>>
          /\ rate_limits' = SetBucket("login:10.0.0.1", FailedLoginBucket)
          /\ NoStoreEffect]_vars

\* The right password with a wrong username, rejected like any other failure.
C16_Witness ==
    /\ request.path = LoginPath
    /\ request.method = "POST"
    /\ request.username # DASH_USER
    /\ request.password = DashPassword
    /\ handler = "login"
    /\ resp.status = 401
    /\ resp.body.error = "Invalid credentials"


----------------------------------------------------------------------------
(* Properties of mode resolution *)

\* The mode get_sandboxes resolves for an existing sandbox.
ListResolved(name) ==
    IF mode_files[name] # NoFile THEN mode_files[name]
    ELSE label_map(IsolabNet(containers[name]))

\* The helper call by which the last start or restart re-applied a mode.
Reapply ==
    {i \in HelperCalls :
        /\ op.kind \in {"start", "restart"}
        /\ i = Len(trace)
        /\ i = IF op.kind = "start" THEN 2 ELSE 3}

\* C17: the mode a start or restart re-applies to a sandbox is the mode the
\* listing resolves for it in the same state: mode file first, else the label
\* mapped through the legacy table, else "none".
C17_OneResolvedMode ==
    \A i \in Reapply : trace[i].arg = ListResolved(op.name)

\* The inputs the legacy mapping is stated for, and what they resolve to.
C18_Inputs == {"--net=full", "full", "open", "--net=none", "none", NoNet, NoLabel}
C18_Resolves(v) == IF v \in {"--net=full", "full", "open"} THEN "open" ELSE "none"

\* C18: create normalizes a requested '--net=full', 'full' or 'open' to
\* 'open' and '--net=none', 'none' or an absent value to 'none', and the
\* listing resolves a label of these values, on a sandbox without a mode
\* file, the same way.
C18_LegacyMapping ==
    /\ (op.kind = "create" /\ trace # <<>> /\ op.net \in C18_Inputs) =>
          trace[1].arg = C18_Resolves(op.net)
    /\ \A n \in Owned :
          (mode_files[n] = NoFile /\ containers[n].label \in C18_Inputs) =>
              \A i \in Listed(n) :
                  get_sandboxes[i].network = NetDisplay(C18_Resolves(containers[n].label))

CurrentModes == {"none", "packages", "web", "open"}

\* C19: a sandbox labelled with one of the current modes that has no mode
\* file is listed with that very mode.
C19_LabelLossless ==
    \A n \in Owned :
        (mode_files[n] = NoFile /\ containers[n].label \in CurrentModes) =>
            \A i \in Listed(n) :
                get_sandboxes[i].network = NetDisplay(containers[n].label)

\* The request values create's table knows.
Recognized == CurrentModes \cup {"full"}

\* C20: a create that reaches the platform labels the container with a mode
\* of {none, packages, web, open}, and writes that same mode to the mode file
\* and passes it to the helper; the mode is "none" whenever the requested
\* value is not one the table knows, so it is broader than "none" only for a
\* recognized request.
C20_UnknownIsNone ==
    (op.kind = "create" /\ trace # <<>>) =>
        LET mode == trace[1].arg IN
        /\ trace[1].call = "run"
        /\ mode \in CurrentModes
        /\ RequestedNet(op.net) \notin Recognized => mode = "none"
        /\ \A i \in DOMAIN trace :
              trace[i].call \in {"run", "ms_write", "helper"} => trace[i].arg = mode
        /\ trace[1].ok => containers[op.name].label = mode
        /\ mode_files[op.name] # NoFile => mode_files[op.name] = mode

\* A create asking for an unknown value went through with "none" everywhere.
C20_Witness ==
    /\ op.kind = "create"
    /\ op.net = "bogus"
    /\ resp.status = 200
    /\ Len(trace) = 3
    /\ trace[3] = HelperEv(op.name, "none", TRUE)
    /\ mode_files[op.name] = "none"
    /\ containers[op.name].label = "none"


----------------------------------------------------------------------------
(* Properties of port allocation and of the mode files (under Spec) *)

\* The published SSH ports of the existing sandboxes other than `name`,
\* running or not.
PortsOfOthers(name) == {containers[n].port : n \in Owned \ {name}}

\* C21: a successful create publishes the smallest port from 2200 on that no
\* other existing sandbox, running or stopped, has as its SSH port, so no two
\* existing sandboxes ever have the same published port.
C21_PortsDistinct ==
    /\ (op.kind = "create" /\ resp.status = 200) =>
          resp.body.port = FirstFree(SSH_BASE_PORT, PortsOfOthers(op.name))
    /\ \A n, m \in Owned : n # m => containers[n].port # containers[m].port


\* C23: a mode file changes only in two ways: the create that makes the
\* sandbox of that name writes it, with the mode the sandbox is labelled with,
\* or a remove or nuke deletes it.  While a sandbox exists no start, stop,
\* restart, list or refused create touches its mode file.
C23_ModeFileWrittenOnce ==
    [][\A n \in Names :
          mode_files'[n] # mode_files[n] =>
              \/ /\ op'.kind = "create"
                 /\ op'.name = n
                 /\ ~Exists(n)
                 /\ resp'.status = 200
                 /\ containers'[n].status = "running"
                 /\ mode_files'[n] = containers'[n].label
                 /\ Cardinality({i \in DOMAIN trace' : trace'[i].call = "ms_write"}) = 1
              \/ /\ op'.kind \in {"remove", "nuke"}
                 /\ mode_files'[n] = NoFile]_vars

\* A create asking for another mode under the name of an existing sandbox
\* was refused and the sandbox's mode file still holds the first mode.
C23_Witness ==
    /\ op.kind = "create"
    /\ op.net = "full"
    /\ resp.status = 409
    /\ mode_files[op.name] = "packages"
    /\ containers[op.name].status = "exited"


DeleteCalls(calls) == {i \in DOMAIN calls : calls[i].call = "ms_delete"}
RemovalsOk(calls) == \A i \in DOMAIN calls : calls[i].call = "remove" => calls[i].ok

\* C24: a remove whose sandbox has no mode file issues no delete that fails
\* and answers ok; a second remove of the same name answers 404, not an error;
\* a nuke whose removals succeed answers ok when no mode file exists or the
\* modes directory does not exist.  The mode files are as before in each case.
C24_DeleteIdempotent ==
    [][/\ (op'.kind = "remove" /\ Exists(op'.name) /\ mode_files[op'.name] = NoFile
              /\ RemovalsOk(trace')) =>
            /\ resp'.status = 200
            /\ \A i \in DeleteCalls(trace') : trace'[i].ok
            /\ UNCHANGED <<mode_files, modes_dir>>
       /\ (op'.kind = "remove" /\ op.kind = "remove" /\ op.name = op'.name
              /\ resp.status = 200) =>
            /\ resp'.status = 404
            /\ UNCHANGED <<mode_files, modes_dir>>
       /\ (op'.kind = "nuke" /\ RemovalsOk(trace')
              /\ (~modes_dir \/ \A n \in Names : mode_files[n] = NoFile)) =>
            /\ resp'.status = 200
            /\ DeleteCalls(trace') = {}
            /\ UNCHANGED <<mode_files, modes_dir>>]_vars

\* A sandbox whose mode file was never written, the modes directory not
\* existing either, was removed without error and without a delete call.
C24_Witness ==
    /\ op.kind = "remove"
    /\ resp.status = 200
    /\ Len(trace) = 2
    /\ trace[2] = Ev("remove", op.name, "", TRUE)
    /\ ~modes_dir


\* C27: start, stop, restart and remove of a name without a container answer
\* 404 "Not found", make no call at all (no helper call, no mode-file read or
\* delete) and leave every sandbox, mode file and policy as it was.
C27_AbsentIsNotFound ==
    [][(op'.kind \in {"start", "stop", "restart", "remove"}
            /\ containers[op'.name].status = "absent") =>
          /\ resp'.status = 404
          /\ resp'.body.error = "Not found"
          /\ trace' = <<>>
          /\ UNCHANGED <<containers, mode_files, modes_dir, policy>>]_vars

\* A remove of a name whose container is gone while its mode file is still
\* there (left by a nuke that failed half-way) and another sandbox exists.
C27_Witness ==
    /\ op.kind = "remove"
    /\ resp.status = 404
    /\ mode_files[op.name] # NoFile
    /\ containers[op.name].status = "absent"
    /\ Owned # {}


\* C28: after any sequence of completed operations, every running sandbox has
\* its persisted mode as the policy in force; in particular none is left with
\* the clearing policy "open" while its persisted mode is narrower.
C28_RunningHasPersistedMode ==
    \A n \in Names :
        containers[n].status = "running" => policy[n] = PersistedMode(n)

\* The case at hand: the clearing call of a stop succeeded, the platform's stop
\* then failed, and the sandbox keeps running with "open" in force.
C28_OpenLeftBehind ==
    /\ op.kind = "stop"
    /\ resp.status = 500
    /\ Len(trace) = 2
    /\ trace[1] = Ev("helper", op.name, ClearingMode, TRUE)
    /\ trace[2] = Ev("stop", op.name, "", FALSE)
    /\ containers[op.name].status = "running"
    /\ policy[op.name] = ClearingMode
    /\ PersistedMode(op.name) = "packages"


----------------------------------------------------------------------------
(* api_create: the name of the request body.  A name is the sequence of its
   characters; the handlers above take the name api_create has validated. *)

\* Requests handled in one behaviour of SpecNames.
MaxNameOps == 2

\* str.strip() removes these from both ends.
Whitespace == {" ", "\t"}
\* Characters str.isalnum() accepts: ASCII letters and digits, and every other
\* Unicode letter or digit.
AsciiAlnum == {"l", "a", "b", "1", "2"}
UnicodeAlnum == {"é"}

\* data.get("name", ""): present or missing, before strip().
RawNames ==
    { <<"l", "a", "b", "1">>,
      <<" ", "l", "a", "b", "1", "\t">>,
      <<"l", "a", "b", "_", "2">>,
      <<>>,
      <<" ">>,
      <<"l", "a", "b", " ", "1">>,
      <<"l", "a", "b", "1", "!">>,
      <<"-">>,
      <<"_", "-">>,
      <<"l", "a", "b", "é">> }
NameNets == {NoNet, "packages"}
NameOutcomes == {"no_key", "run_fail", "ok"}

RECURSIVE lstrip(_)
lstrip(s) == IF s # <<>> /\ Head(s) \in Whitespace THEN lstrip(Tail(s)) ELSE s
RECURSIVE rstrip(_)
rstrip(s) ==
    IF s # <<>> /\ s[Len(s)] \in Whitespace
    THEN rstrip(SubSeq(s, 1, Len(s) - 1)) ELSE s
strip(s) == rstrip(lstrip(s))

\* s.replace(old, "") for a one-character old.
replace(s, old) == SelectSeq(s, LAMBDA c : c # old)

\* str.isalnum(): false for the empty string.
isalnum(s) ==
    s # <<>> /\ \A i \in DOMAIN s : s[i] \in AsciiAlnum \cup UnicodeAlnum

\* not (not name or not name.replace("-", "").replace("_", "").isalnum())
name_valid(name) ==
    name # <<>> /\ isalnum(replace(replace(name, "-"), "_"))

\* The string of a character sequence.
RECURSIVE Join(_)
Join(s) == IF s = <<>> THEN "" ELSE Head(s) \o Join(Tail(s))

\* The platform takes a container name of ASCII letters, digits, "_", "."
\* and "-" only; containers.run raises for any other.
ContainerNameOk(name) ==
    \A i \in DOMAIN name : name[i] \in AsciiAlnum \cup {"_", ".", "-"}

InvalidName400 ==
    Json(400, [error |-> "Invalid name. Use alphanumeric, hyphens, underscores."])

\* api_create from the request body on.
create_request(raw, netIn, out) ==
    LET name == strip(raw)
        mode == mode_map(RequestedNet(netIn))
    IN
    IF ~name_valid(name) THEN
        /\ op' = Req("create", Join(name), netIn)
        /\ resp' = InvalidName400
        /\ trace' = <<>>
        /\ UNCHANGED <<containers, mode_files, modes_dir, policy>>
    ELSE IF ContainerNameOk(name) THEN
        /\ Join(name) \in Names
        /\ api_create(Join(name), netIn, out)
    ELSE
        \* No container has the name; the key is read, then run is refused.
        /\ op' = Req("create", Join(name), netIn)
        /\ IF out = "no_key"
           THEN /\ resp' = Json(500, [error |-> "SSH key not found"])
                /\ trace' = <<>>
           ELSE /\ resp' = create_response(Join(name), AllocatePort, "run_fail")
                /\ trace' = create_calls(Join(name), mode, "run_fail")
        /\ UNCHANGED <<containers, mode_files, modes_dir, policy>>

NamesStep ==
    nops < MaxNameOps /\ nops' = nops + 1 /\ UNCHANGED rlVars /\ UNCHANGED gateVars
    /\ UNCHANGED threadVars

NamesCreate ==
    /\ NamesStep
    /\ \E raw \in RawNames, net \in NameNets, out \in NameOutcomes :
          create_request(raw, net, out)

NamesLabs == NamesStep /\ api_labs

NamesNext == NamesCreate \/ NamesLabs
SpecNames == Init /\ [][NamesNext]_vars

----------------------------------------------------------------------------
(* Properties of the name validation (under SpecNames) *)

\* The pattern [A-Za-z0-9_-]+.
MatchesPattern(name) ==
    name # <<>> /\ \A i \in DOMAIN name : name[i] \in AsciiAlnum \cup {"_", "-"}

\* The characters of a request's trimmed name.
CharsOf(str) == CHOOSE s \in {strip(r) : r \in RawNames} : Join(s) = str

\* C25: create accepts a name exactly when, trimmed, it is non-empty and made
\* of characters from [A-Za-z0-9_-]; any other name is answered 400 before any
\* platform, mode-file or helper call.
C25_NameAcceptedIffPattern ==
    op.kind = "create" =>
        IF MatchesPattern(CharsOf(op.name))
        THEN resp.status # 400
        ELSE resp.status = 400 /\ trace = <<>>

\* A name of hyphens and underscores only is refused although it matches.
C25_HyphenOnlyRefused ==
    op.kind = "create" /\ op.name = "-" /\ resp.status = 400

\* A name with a non-ASCII letter passes the validation and reaches the platform.
C25_NonAsciiAccepted ==
    /\ op.kind = "create" /\ op.name = "labé" /\ resp.status = 500
    /\ Len(trace) = 2 /\ trace[1].call = "run"


----------------------------------------------------------------------------
(* The lifecycle handlers run by concurrent request threads (SpecConc):      *)
(* app.run serves each request on its own thread and the handlers take no    *)
(* lock.  Each platform, file and helper call is one step; each thread       *)
(* serves one request.                                                       *)

\* data.get("network") of the create requests.
ConcNet == "packages"

\* A thread: its position, its request, its locals (port, mode, the items
\* its loop has still to visit), the calls it has made and its response
\* status (0 while the request is in flight).
NoThread ==
    [pc |-> "idle", kind |-> "none", name |-> "", port |-> 0, mode |-> "",
     todo |-> <<>>, calls |-> <<>>, status |-> 0]

\* The names of a set, in SortedNames order.
InOrder(S) == SelectSeq(SortedNames, LAMBDA n : n \in S)

Files == {n \in Names : mode_files[n] # NoFile}

Called(th, e) == [threads EXCEPT ![th].calls = Append(@, e)]

\* The handler returns (or an exception no handler catches ends the request).
Return(ths, th, status) == [ths EXCEPT ![th].pc = "done", ![th].status = status]

Goto(ths, th, pc) == [ths EXCEPT ![th].pc = pc]

Begin(th, kind, name) ==
    [threads EXCEPT ![th].kind = kind, ![th].name = name]

\* A platform that publishes a host port whoever holds it.
BindNeverRefused(port) == FALSE

\* The platform refuses to publish a host port a running container holds.
BindRefused(port) == port \in UsedPorts

\* _isolab_cmd("set-net", name, mode): the helper can only fail here when the
\* sandbox is not running any more.
HelperResults(name) ==
    IF containers[name].status = "running" THEN {TRUE} ELSE BOOLEAN

(* api_create *)

\* client.containers.get(container_name)
create_get(th, name) ==
    /\ threads[th].pc = "idle"
    /\ threads' = IF Exists(name)
                  THEN Return(Begin(th, "create", name), th, 409)
                  ELSE Goto(Begin(th, "create", name), th, "c_scan")
    /\ UNCHANGED <<containers, mode_files, modes_dir, policy>>

\* for c in client.containers.list(...): used_ports ...; while port in used_ports
create_scan(th) ==
    /\ threads[th].pc = "c_scan"
    /\ threads' = [threads EXCEPT ![th].pc = "c_run",
                                  ![th].port = AllocatePort,
                                  ![th].mode = mode_map(RequestedNet(ConcNet))]
    /\ UNCHANGED <<containers, mode_files, modes_dir, policy>>

\* client.containers.run(...): raises when the name is taken (nothing is
\* created) or when the port cannot be bound (the container stays, created).
create_run(th) ==
    LET me == threads[th]
        made(status) == [containers EXCEPT ![me.name] =
                            [status |-> status, port |-> me.port, label |-> me.mode]]
        failed == Return([threads EXCEPT ![th].calls =
                             @ \o create_calls(me.name, me.mode, "run_fail")], th, 500)
    IN
    /\ me.pc = "c_run"
    /\ IF Exists(me.name) THEN
          /\ threads' = failed
          /\ UNCHANGED containers
       ELSE IF BindRefused(me.port) THEN
          /\ threads' = failed
          /\ containers' = made("created")
       ELSE
          /\ threads' = Goto(Called(th, Ev("run", me.name, me.mode, TRUE)), th, "c_persist")
          /\ containers' = made("running")
    /\ UNCHANGED <<mode_files, modes_dir, policy>>

\* os.makedirs(MODES_DIR, exist_ok=True); open(..., "w"); mf.write(mode)
create_persist(th) ==
    LET me == threads[th] IN
    /\ me.pc = "c_persist"
    /\ modes_dir' = TRUE
    /\ mode_files' = [mode_files EXCEPT ![me.name] = me.mode]
    /\ threads' = Goto(Called(th, Ev("ms_write", me.name, me.mode, TRUE)), th, "c_apply")
    /\ UNCHANGED <<containers, policy>>

\* _isolab_cmd("set-net", name, mode); return {ok, name, port}
create_apply(th) ==
    LET me == threads[th] IN
    /\ me.pc = "c_apply"
    /\ \E ok \in HelperResults(me.name) :
          /\ policy' = HelperApply(policy, me.name, me.mode, ok)
          /\ threads' = Return(Called(th, HelperEv(me.name, me.mode, ok)), th, 200)
    /\ UNCHANGED <<containers, mode_files, modes_dir>>

(* api_remove *)

\* c = client.containers.get(...)
remove_get(th, name) ==
    /\ threads[th].pc = "idle"
    /\ threads' = IF Exists(name)
                  THEN Goto(Begin(th, "remove", name), th, "r_clear")
                  ELSE Return(Begin(th, "remove", name), th, 404)
    /\ UNCHANGED <<containers, mode_files, modes_dir, policy>>

\* _isolab_cmd("set-net", name, "open")
remove_clear(th) ==
    LET me == threads[th] IN
    /\ me.pc = "r_clear"
    /\ \E ok \in HelperResults(me.name) :
          /\ policy' = HelperApply(policy, me.name, ClearingMode, ok)
          /\ threads' = Goto(Called(th, HelperEv(me.name, ClearingMode, ok)), th, "r_remove")
    /\ UNCHANGED <<containers, mode_files, modes_dir>>

\* c.remove(force=True): NotFound, caught, when the container is gone.
remove_container(th) ==
    LET me == threads[th] IN
    /\ me.pc = "r_remove"
    /\ IF Exists(me.name) THEN
          /\ containers' = [containers EXCEPT ![me.name] = NoContainer]
          /\ threads' = Goto(Called(th, Ev("remove", me.name, "", TRUE)), th, "r_exists")
       ELSE
          /\ threads' = Return(Called(th, Ev("remove", me.name, "", FALSE)), th, 404)
          /\ UNCHANGED containers
    /\ UNCHANGED <<mode_files, modes_dir, policy>>

\* if os.path.exists(mode_file):
remove_exists(th) ==
    LET me == threads[th] IN
    /\ me.pc = "r_exists"
    /\ threads' = IF mode_files[me.name] # NoFile
                  THEN Goto(threads, th, "r_unlink")
                  ELSE Return(threads, th, 200)
    /\ UNCHANGED <<containers, mode_files, modes_dir, policy>>

\* os.remove(mode_file): FileNotFoundError, not caught, when the file is gone.
remove_unlink(th) ==
    LET me == threads[th] IN
    /\ me.pc = "r_unlink"
    /\ IF mode_files[me.name] # NoFile THEN
          /\ mode_files' = [mode_files EXCEPT ![me.name] = NoFile]
          /\ threads' = Return(Called(th, Ev("ms_delete", me.name, "", TRUE)), th, 200)
       ELSE
          /\ threads' = Return(Called(th, Ev("ms_delete", me.name, "", FALSE)), th, 500)
          /\ UNCHANGED mode_files
    /\ UNCHANGED <<containers, modes_dir, policy>>

(* api_nuke *)

\* After one item of a loop: the next item, or the statement after the loop.
Advance(ths, th, again, after) ==
    [ths EXCEPT ![th].todo = Tail(@),
                ![th].pc = IF Tail(ths[th].todo) = <<>> THEN after ELSE again]

\* containers = client.containers.list(all=True, ...)
nuke_list(th) ==
    /\ threads[th].pc = "idle"
    /\ threads' = [Begin(th, "nuke", "") EXCEPT
                      ![th].todo = InOrder(Owned),
                      ![th].pc = IF Owned = {} THEN "n_isdir" ELSE "n_clear"]
    /\ UNCHANGED <<containers, mode_files, modes_dir, policy>>

\* _isolab_cmd("set-net", name, "open")
nuke_clear(th) ==
    LET name == Head(threads[th].todo) IN
    /\ threads[th].pc = "n_clear"
    /\ \E ok \in HelperResults(name) :
          /\ policy' = HelperApply(policy, name, ClearingMode, ok)
          /\ threads' = Goto(Called(th, HelperEv(name, ClearingMode, ok)), th, "n_remove")
    /\ UNCHANGED <<containers, mode_files, modes_dir>>

\* c.remove(force=True): NotFound, not caught here, when the container is gone.
nuke_remove(th) ==
    LET name == Head(threads[th].todo) IN
    /\ threads[th].pc = "n_remove"
    /\ IF Exists(name) THEN
          /\ containers' = [containers EXCEPT ![name] = NoContainer]
          /\ threads' = Advance(Called(th, Ev("remove", name, "", TRUE)), th,
                                "n_clear", "n_isdir")
       ELSE
          /\ threads' = Return(Called(th, Ev("remove", name, "", FALSE)), th, 500)
          /\ UNCHANGED containers
    /\ UNCHANGED <<mode_files, modes_dir, policy>>

\* if os.path.isdir(MODES_DIR):
nuke_isdir(th) ==
    /\ threads[th].pc = "n_isdir"
    /\ threads' = IF modes_dir THEN Goto(threads, th, "n_listdir")
                  ELSE Return(threads, th, 200)
    /\ UNCHANGED <<containers, mode_files, modes_dir, policy>>

\* for f in os.listdir(MODES_DIR):
nuke_listdir(th) ==
    /\ threads[th].pc = "n_listdir"
    /\ threads' = IF Files = {} THEN Return(threads, th, 200)
                  ELSE [threads EXCEPT ![th].todo = InOrder(Files),
                                       ![th].pc = "n_unlink"]
    /\ UNCHANGED <<containers, mode_files, modes_dir, policy>>

\* os.remove(os.path.join(MODES_DIR, f)): FileNotFoundError when it is gone.
nuke_unlink(th) ==
    LET name == Head(threads[th].todo)
        deleted == Called(th, Ev("ms_delete", name, "", TRUE))
    IN
    /\ threads[th].pc = "n_unlink"
    /\ IF mode_files[name] # NoFile THEN
          /\ mode_files' = [mode_files EXCEPT ![name] = NoFile]
          /\ threads' = IF Tail(threads[th].todo) = <<>>
                        THEN Return(deleted, th, 200)
                        ELSE Advance(deleted, th, "n_unlink", "n_unlink")
       ELSE
          /\ threads' = Return(Called(th, Ev("ms_delete", name, "", FALSE)), th, 500)
          /\ UNCHANGED mode_files
    /\ UNCHANGED <<containers, modes_dir, policy>>

(* api_start, api_restart *)

\* c = client.containers.get(...)
start_get(th, name) ==
    /\ threads[th].pc = "idle"
    /\ threads' = IF Exists(name)
                  THEN Goto(Begin(th, "start", name), th, "s_start")
                  ELSE Return(Begin(th, "start", name), th, 404)
    /\ UNCHANGED <<containers, mode_files, modes_dir, policy>>

restart_get(th, name) ==
    /\ threads[th].pc = "idle"
    /\ threads' = IF Exists(name)
                  THEN Goto(Begin(th, "restart", name), th, "s_clear")
                  ELSE Return(Begin(th, "restart", name), th, 404)
    /\ UNCHANGED <<containers, mode_files, modes_dir, policy>>

\* _isolab_cmd("set-net", name, "open")
restart_clear(th) ==
    LET me == threads[th] IN
    /\ me.pc = "s_clear"
    /\ \E ok \in HelperResults(me.name) :
          /\ policy' = HelperApply(policy, me.name, ClearingMode, ok)
          /\ threads' = Goto(Called(th, HelperEv(me.name, ClearingMode, ok)), th, "s_start")
    /\ UNCHANGED <<containers, mode_files, modes_dir>>

\* c.start() / c.restart(timeout=5): NotFound, caught, when the container is
\* gone; an error, not caught, when its port cannot be bound.
start_container(th) ==
    LET me == threads[th]
        call == IF me.kind = "start" THEN "start" ELSE "restart"
    IN
    /\ me.pc = "s_start"
    /\ IF ~Exists(me.name) THEN
          /\ threads' = Return(Called(th, Ev(call, me.name, "", FALSE)), th, 404)
          /\ UNCHANGED containers
       ELSE IF containers[me.name].status # "running" /\ ~PortFree(me.name) THEN
          /\ threads' = Return(Called(th, Ev(call, me.name, "", FALSE)), th, 500)
          /\ UNCHANGED containers
       ELSE
          /\ threads' = Goto(Called(th, Ev(call, me.name, "", TRUE)), th, "s_exists")
          /\ containers' = [containers EXCEPT ![me.name].status = "running"]
    /\ UNCHANGED <<mode_files, modes_dir, policy>>

\* mode = "none"; if os.path.exists(mode_file):
reapply_exists(th) ==
    LET me == threads[th] IN
    /\ me.pc = "s_exists"
    /\ threads' = IF mode_files[me.name] # NoFile
                  THEN Goto(threads, th, "s_read")
                  ELSE [threads EXCEPT ![th].mode = "none", ![th].pc = "s_apply"]
    /\ UNCHANGED <<containers, mode_files, modes_dir, policy>>

\* with open(mode_file) as mf: mode = mf.read().strip()
reapply_read(th) ==
    LET me == threads[th] IN
    /\ me.pc = "s_read"
    /\ threads' =
          IF mode_files[me.name] # NoFile
          THEN [Called(th, Ev("ms_read", me.name, "", TRUE)) EXCEPT
                   ![th].mode = mode_files[me.name], ![th].pc = "s_apply"]
          ELSE Return(Called(th, Ev("ms_read", me.name, "", FALSE)), th, 500)
    /\ UNCHANGED <<containers, mode_files, modes_dir, policy>>

\* _isolab_cmd("set-net", name, mode); return {ok}
reapply_apply(th) ==
    LET me == threads[th] IN
    /\ me.pc = "s_apply"
    /\ \E ok \in HelperResults(me.name) :
          /\ policy' = HelperApply(policy, me.name, me.mode, ok)
          /\ threads' = Return(Called(th, HelperEv(me.name, me.mode, ok)), th, 200)
    /\ UNCHANGED <<containers, mode_files, modes_dir>>

(* api_labs: get_sandboxes *)

\* containers = client.containers.list(all=True, ...)
list_containers(th) ==
    /\ threads[th].pc = "idle"
    /\ threads' = IF Owned = {} THEN Return(Begin(th, "list", ""), th, 200)
                  ELSE [Begin(th, "list", "") EXCEPT
                           ![th].todo = InOrder(Owned), ![th].pc = "l_exists"]
    /\ UNCHANGED <<containers, mode_files, modes_dir, policy>>

\* if os.path.exists(mode_file): ... else: the label
list_exists(th) ==
    LET name == Head(threads[th].todo) IN
    /\ threads[th].pc = "l_exists"
    /\ threads' = IF mode_files[name] # NoFile THEN Goto(threads, th, "l_read")
                  ELSE IF Tail(threads[th].todo) = <<>> THEN Return(threads, th, 200)
                  ELSE Advance(threads, th, "l_exists", "l_exists")
    /\ UNCHANGED <<containers, mode_files, modes_dir, policy>>

\* with open(mode_file) as mf: net_mode = mf.read().strip()
list_read(th) ==
    LET name == Head(threads[th].todo)
        read == Called(th, Ev("ms_read", name, "", TRUE))
    IN
    /\ threads[th].pc = "l_read"
    /\ threads' = IF mode_files[name] = NoFile
                  THEN Return(Called(th, Ev("ms_read", name, "", FALSE)), th, 500)
                  ELSE IF Tail(threads[th].todo) = <<>> THEN Return(read, th, 200)
                  ELSE Advance(read, th, "l_exists", "l_exists")
    /\ UNCHANGED <<containers, mode_files, modes_dir, policy>>

\* The sandboxes earlier, completed creates have left: none, lab1, or both.
ConcSystems == {{}, {"lab1"}, Names}

ConcPort(name) == IF name = "lab1" THEN SSH_BASE_PORT ELSE SSH_BASE_PORT + 1

ConcInit ==
    /\ \E S \in ConcSystems :
          /\ containers = [n \in Names |->
                IF n \in S
                THEN [status |-> "running", port |-> ConcPort(n),
                      label |-> mode_map(ConcNet)]
                ELSE NoContainer]
          /\ mode_files = [n \in Names |-> IF n \in S THEN mode_map(ConcNet) ELSE NoFile]
          /\ modes_dir = (S # {})
          /\ policy = [n \in Names |-> IF n \in S THEN mode_map(ConcNet) ELSE "unset"]
    /\ op = Req("none", "", NoNet)
    /\ trace = <<>>
    /\ resp = Json(0, [ok |-> TRUE])
    /\ nops = 0
    /\ threads = [th \in Threads |-> NoThread]
    /\ RLIdle
    /\ GateIdle

ConcFrame ==
    /\ UNCHANGED <<op, trace, resp, nops>>
    /\ UNCHANGED rlVars
    /\ UNCHANGED gateVars

CreateGet == ConcFrame /\ \E th \in Threads, name \in Names : create_get(th, name)
CreateScan == ConcFrame /\ \E th \in Threads : create_scan(th)
CreateRun == ConcFrame /\ \E th \in Threads : create_run(th)
CreatePersist == ConcFrame /\ \E th \in Threads : create_persist(th)
CreateApply == ConcFrame /\ \E th \in Threads : create_apply(th)
RemoveGet == ConcFrame /\ \E th \in Threads, name \in Names : remove_get(th, name)
RemoveClear == ConcFrame /\ \E th \in Threads : remove_clear(th)
RemoveContainer == ConcFrame /\ \E th \in Threads : remove_container(th)
RemoveExists == ConcFrame /\ \E th \in Threads : remove_exists(th)
RemoveUnlink == ConcFrame /\ \E th \in Threads : remove_unlink(th)
NukeList == ConcFrame /\ \E th \in Threads : nuke_list(th)
NukeClear == ConcFrame /\ \E th \in Threads : nuke_clear(th)
NukeRemove == ConcFrame /\ \E th \in Threads : nuke_remove(th)
NukeIsdir == ConcFrame /\ \E th \in Threads : nuke_isdir(th)
NukeListdir == ConcFrame /\ \E th \in Threads : nuke_listdir(th)
NukeUnlink == ConcFrame /\ \E th \in Threads : nuke_unlink(th)
StartGet == ConcFrame /\ \E th \in Threads, name \in Names : start_get(th, name)
RestartGet == ConcFrame /\ \E th \in Threads, name \in Names : restart_get(th, name)
RestartClear == ConcFrame /\ \E th \in Threads : restart_clear(th)
StartContainer == ConcFrame /\ \E th \in Threads : start_container(th)
ReapplyExists == ConcFrame /\ \E th \in Threads : reapply_exists(th)
ReapplyRead == ConcFrame /\ \E th \in Threads : reapply_read(th)
ReapplyApply == ConcFrame /\ \E th \in Threads : reapply_apply(th)
ListContainers == ConcFrame /\ \E th \in Threads : list_containers(th)
ListExists == ConcFrame /\ \E th \in Threads : list_exists(th)
ListRead == ConcFrame /\ \E th \in Threads : list_read(th)

ConcNext ==
    \/ CreateGet \/ CreateScan \/ CreateRun \/ CreatePersist \/ CreateApply
    \/ RemoveGet \/ RemoveClear \/ RemoveContainer \/ RemoveExists \/ RemoveUnlink
    \/ NukeList \/ NukeClear \/ NukeRemove \/ NukeIsdir \/ NukeListdir \/ NukeUnlink
    \/ StartGet \/ RestartGet \/ RestartClear \/ StartContainer
    \/ ReapplyExists \/ ReapplyRead \/ ReapplyApply
    \/ ListContainers \/ ListExists \/ ListRead

SpecConc == ConcInit /\ [][ConcNext]_vars


----------------------------------------------------------------------------
(* Properties of the concurrent lifecycle handlers (under SpecConc) *)

\* Thread th serves a create that has reached containers.run.
RanCreate(th) ==
    /\ threads[th].kind = "create"
    /\ \E i \in DOMAIN threads[th].calls : threads[th].calls[i].call = "run"

\* Two creates with different names that computed the same candidate port.
SameCandidate(a, b) ==
    /\ a # b
    /\ RanCreate(a) /\ RanCreate(b)
    /\ threads[a].name # threads[b].name
    /\ threads[a].port = threads[b].port

\* C22: when two concurrent creates with different names have computed the
\* same candidate port, not both report success; one of them answers 500 with
\* the refused containers.run as its only platform call, no mode file written
\* and no helper call; and no two running sandboxes ever hold the same port.
C22_BindFailureDetectsConflict ==
    /\ \A a, b \in Threads :
          SameCandidate(a, b) =>
              /\ ~(threads[a].status = 200 /\ threads[b].status = 200)
              /\ \E l \in {a, b} :
                    /\ threads[l].status = 500
                    /\ threads[l].calls =
                          create_calls(threads[l].name, threads[l].mode, "run_fail")
                    /\ mode_files[threads[l].name] = NoFile
                    /\ policy[threads[l].name] = "unset"
    /\ \A n, m \in Names :
          (n # m /\ containers[n].status = "running" /\ containers[m].status = "running")
              => containers[n].port # containers[m].port

\* Both creates have answered: one 200, the other 500, its container left
\* created and not running.
C22_Witness ==
    /\ SameCandidate("t1", "t2")
    /\ threads["t1"].status = 500
    /\ threads["t2"].status = 200
    /\ threads["t1"].port = SSH_BASE_PORT
    /\ containers[threads["t1"].name].status = "created"
    /\ containers[threads["t2"].name].status = "running"


AllDone == \A th \in Threads : threads[th].pc = "done"

\* C29: once concurrent create, remove and nuke requests have all completed,
\* the mode files and the existing sandboxes correspond one to one: every
\* sandbox has its mode file and every mode file has its sandbox.
C29_StoreMatchesSandboxes ==
    (AllDone /\ \A th \in Threads : threads[th].kind \in {"create", "remove", "nuke"}) =>
        \A n \in Names : Exists(n) <=> mode_files[n] # NoFile

\* A create and a nuke have both answered 200; the sandbox is gone and its
\* mode file, written after the nuke listed the directory, is left behind.
C29_OrphanEntry ==
    /\ AllDone
    /\ threads["t1"].kind = "create" /\ threads["t1"].status = 200
    /\ threads["t2"].kind = "nuke" /\ threads["t2"].status = 200
    /\ ~Exists(threads["t1"].name)
    /\ mode_files[threads["t1"].name] # NoFile

\* A create and a nuke have both answered 200; the sandbox runs and the nuke,
\* which listed no container, has deleted its mode file.
C29_MissingEntry ==
    /\ AllDone
    /\ threads["t1"].kind = "create" /\ threads["t1"].status = 200
    /\ threads["t2"].kind = "nuke" /\ threads["t2"].status = 200
    /\ containers[threads["t1"].name].status = "running"
    /\ mode_files[threads["t1"].name] = NoFile

\* C30: under every interleaving of list, start, restart, remove and nuke, no
\* read or delete of a mode file fails because another request removed the
\* file after the existence check.
C30_NoCheckThenUseFailure ==
    \A th \in Threads :
        threads[th].kind \in {"list", "start", "restart", "remove", "nuke"} =>
            \A i \in DOMAIN threads[th].calls :
                threads[th].calls[i].call \in {"ms_read", "ms_delete"} =>
                    threads[th].calls[i].ok

\* A remove answered 500: a nuke deleted the file between its os.path.exists
\* and its os.remove.
C30_RemoveFails ==
    /\ threads["t1"].kind = "remove" /\ threads["t1"].status = 500
    /\ threads["t2"].kind = "nuke"
    /\ threads["t1"].calls[Len(threads["t1"].calls)] =
          Ev("ms_delete", threads["t1"].name, "", FALSE)

\* A list, a start or a restart answered 500: the file was deleted between
\* os.path.exists and open.
C30_ReadFails ==
    /\ \E th \in Threads :
          /\ threads[th].kind \in {"list", "start", "restart"}
          /\ threads[th].status = 500
          /\ threads[th].calls[Len(threads[th].calls)].call = "ms_read"
          /\ ~threads[th].calls[Len(threads[th].calls)].ok


----------------------------------------------------------------------------
(* The create limit of require_auth with concurrent request threads          *)
(* (SpecLimit): authenticated POSTs of /api/lab/create with the session's    *)
(* CSRF token arrive from two addresses; each runs rate_limit_check          *)
(* statement by statement and is then answered 429 or handed to api_create.  *)
(* The clock stands still, so every admitted timestamp is inside the window. *)

\* Create requests received in one behaviour.
MaxLimitOps == 3

\* request.remote_addr
Addrs == {"10.0.0.1", "10.0.0.2"}

\* f"create:{ip}", f"login:{ip}"
CreateKey(ip) == "create:" \o ip
LoginKey(ip) == "login:" \o ip

\* Create requests 10.0.0.1 has had admitted earlier in the window (each
\* answered 400 for its name), and what the login bucket holds after the
\* login that opened the session.
EarlierCreates == {0, CREATE_MAX - 2}
EarlierLogins == {1, LOGIN_MAX}

Stamps(n, t) == [i \in 1..n |-> t]

\* The browser's session after a successful login.
OpenSession ==
    [authenticated |-> TRUE, username |-> DASH_USER, csrf_token |-> token_hex(0)]

\* POST /api/lab/create with the header X-CSRF-Token of the session.
CreatePost ==
    [path |-> CreatePath, method |-> "POST", token |-> session.csrf_token,
     username |-> "", password |-> ""]

\* A thread's request: where it is, its address, how many create requests of
\* that address had been admitted when it arrived, and its response.
NoArrival == [pc |-> "idle", addr |-> "", seen |-> 0, status |-> 0, retry_after |-> 0]

AdmittedFor(key) == IF key \in DOMAIN admitted THEN Len(admitted[key]) ELSE 0

LimitFrame ==
    /\ UNCHANGED <<now, rl_max, rl_window>>
    /\ UNCHANGED gateVars

\* require_auth up to rate_limit_check's first statement.
Arrive ==
    /\ nops < MaxLimitOps
    /\ nops' = nops + 1
    /\ auth_gate(CreatePost).status = 0
    /\ CreateLimited(CreatePost)
    /\ \E th \in Threads, ip \in Addrs :
          /\ threads[th].pc \in {"idle", "done"}
          /\ t_now(th, CreateKey(ip))
          /\ threads' = [threads EXCEPT ![th] =
                [pc |-> "limit", addr |-> ip, seen |-> AdmittedFor(CreateKey(ip)),
                 status |-> 0, retry_after |-> 0]]
    /\ UNCHANGED <<containers, mode_files, modes_dir, policy, op, trace, resp>>
    /\ LimitFrame

\* if not allowed: return {"error": "Rate limit exceeded", retry_after}, 429
LimitTest ==
    /\ \E th \in Threads :
          /\ t_test(th)
          /\ threads' = IF rl_threads'[th].pc = "idle"
                        THEN [threads EXCEPT ![th].pc = "done", ![th].status = 429,
                                             ![th].retry_after = rl_last'.retry_after]
                        ELSE threads
    /\ UNCHANGED lifeVars
    /\ LimitFrame

\* rate_limit_check returns True, 0: require_auth returns None.
LimitAppend ==
    /\ \E th \in Threads :
          /\ t_append(th)
          /\ threads' = [threads EXCEPT ![th].pc = "route"]
    /\ UNCHANGED lifeVars
    /\ LimitFrame

\* The route function runs.
LimitRoute ==
    /\ \E th \in Threads, name \in GateNames :
          /\ threads[th].pc = "route"
          /\ api_create(name, "packages", "ok")
          /\ threads' = [threads EXCEPT ![th].pc = "done", ![th].status = resp'.status]
    /\ UNCHANGED nops
    /\ UNCHANGED rlVars
    /\ LimitFrame

LimitInit ==
    /\ containers = [n \in Names |-> NoContainer]
    /\ mode_files = [n \in Names |-> NoFile]
    /\ modes_dir = FALSE
    /\ policy = [n \in Names |-> "unset"]
    /\ op = Req("none", "", NoNet)
    /\ trace = <<>>
    /\ resp = Json(0, [ok |-> TRUE])
    /\ nops = 0
    /\ now = 0
    /\ rl_max = CREATE_MAX
    /\ rl_window = RATE_WINDOW
    /\ rl_last = NoCheck
    /\ \E c \in EarlierCreates, l \in EarlierLogins :
          /\ rate_limits = (CreateKey("10.0.0.1") :> Stamps(c, 0))
                              @@ (LoginKey("10.0.0.1") :> Stamps(l, 0))
          /\ admitted = (CreateKey("10.0.0.1") :> Stamps(c, 0))
                           @@ (LoginKey("10.0.0.1") :> Stamps(l, 0))
    /\ rl_threads = [th \in Threads |-> IdleThread(0)]
    /\ threads = [th \in Threads |-> NoArrival]
    /\ session = OpenSession
    /\ issued = 1
    /\ request = NoRequest
    /\ handler = ""

LimitNext ==
    Arrive \/ TInit \/ TFilter \/ TAssign \/ LimitTest \/ LimitAppend \/ LimitRoute

SpecLimit == LimitInit /\ [][LimitNext]_vars

----------------------------------------------------------------------------
(* Properties of the create limit (under SpecLimit) *)

\* C26: a create request that arrives from an address when CREATE_MAX create
\* requests of that address have been admitted within the window is answered
\* 429 with a retry delay of at least one second, and answering it changes no
\* sandbox, mode file or policy and makes no call, whatever the address's
\* login bucket and the other addresses' buckets hold.
C26_CreateLimitHolds ==
    [][\A th \in Threads :
          (threads'[th] # threads[th]
              /\ threads'[th].pc = "done"
              /\ threads'[th].seen >= CREATE_MAX) =>
             /\ threads'[th].status = 429
             /\ threads'[th].retry_after >= 1
             /\ UNCHANGED <<containers, mode_files, modes_dir, policy, trace>>]_vars

\* The request arrived after CREATE_MAX admissions, was admitted all the same
\* and api_create ran for it (409: an earlier request had created the name).
C26_EleventhAdmitted ==
    \E th \in Threads :
        /\ threads[th].pc = "done"
        /\ threads[th].seen = CREATE_MAX
        /\ threads[th].addr = "10.0.0.1"
        /\ threads[th].status = 409
        /\ Len(rate_limits[CreateKey("10.0.0.1")]) = CREATE_MAX
        /\ AdmittedFor(CreateKey("10.0.0.1")) = CREATE_MAX + 1
        /\ \A o \in Threads \ {th} : threads[o].pc = "done"

\* A request beyond the limit was answered 429.
C26_Rejected ==
    \E th \in Threads :
        /\ threads[th].status = 429
        /\ threads[th].seen >= CREATE_MAX
        /\ threads[th].retry_after = RATE_WINDOW + 1


----------------------------------------------------------------------------
(* rate_limit_check, one call at a time, with the results of the calls kept  *)
(* in order in `trace` (SpecRetry): the key, the time, allowed, retry_after. *)

\* Checks made in one behaviour.
MaxRetryChecks == 4

RetryCheck ==
    /\ Len(trace) < MaxRetryChecks
    /\ \E key \in Keys : rate_limit_check(key, rl_max, rl_window)
    /\ trace' = Append(trace, rl_last')
    /\ UNCHANGED <<now, rl_max, rl_window, rl_threads>>
    /\ UNCHANGED <<containers, mode_files, modes_dir, policy, op, resp, nops>>
    /\ UNCHANGED gateVars
    /\ UNCHANGED threadVars

RetryNext == RetryCheck \/ Tick

SpecRetry == RLInit /\ [][RetryNext]_vars

----------------------------------------------------------------------------
(* Properties of the retry delay (under SpecRetry) *)

\* Check j is the first check of check i's key after check i, made when at
\* least check i's retry_after seconds have passed.
RetriedAfterWait(i, j) ==
    /\ i < j
    /\ ~trace[i].allowed
    /\ trace[j].key = trace[i].key
    /\ \A k \in DOMAIN trace : (i < k /\ k < j) => trace[k].key # trace[i].key
    /\ trace[j].at - trace[i].at >= Ticks(trace[i].retry_after)

\* C31: every rejected check returns a retry_after of at least 1, and the
\* next check of the same key, made after at least retry_after seconds with
\* no other check of that key in between, is admitted (max_requests >= 1).
C31_RetryAfterSuffices ==
    /\ \A i \in DOMAIN trace : ~trace[i].allowed => trace[i].retry_after >= 1
    /\ \A i, j \in DOMAIN trace : RetriedAfterWait(i, j) => trace[j].allowed

\* A key was rejected with a delay of one second half a second after its
\* bucket filled, and was admitted when checked again one second later.
C31_Witness ==
    \E i, j \in DOMAIN trace :
        /\ RetriedAfterWait(i, j)
        /\ trace[i].at = 1
        /\ trace[i].retry_after = 1
        /\ trace[j].at = trace[i].at + Ticks(1)
        /\ trace[j].allowed

====
